---- MODULE Spec2Model ----
(***************************************************************************)
(* pyIPCS: the Hex value type (pyipcs/hex_obj.py), the Subcmd output       *)
(* accessor with its field extraction (pyipcs/subcmd/subcmd.py) and the   *)
(* dump header decoders (pyipcs/util/zoautil_py_util.py and               *)
(* pyipcs/dump/dump_header.py).                                            *)
(*                                                                         *)
(* Text is a sequence of one-character strings.  A Hex object is its      *)
(* private attribute __value: the digit string with an optional leading   *)
(* "-".  Hex objects are immutable and the Subcmd read operations change   *)
(* no state, so each behaviour constructs one object and applies one      *)
(* operation to it; the call and its outcome are kept in the state.       *)
(***************************************************************************)
EXTENDS Integers, Sequences, FiniteSets, TLC

VARIABLES hpc, value, hex, call, ret,
          spc, string_output, outfile, fsfile, fsexists, scall, sretS, sretF,
          dpc, dataset, dcall, dret,
          allocations, before, acall, aret,
          session_id, time_opened, ddir, zos, ncall, nret

hvars == <<hpc, value, hex, call, ret>>
svars == <<spc, string_output, outfile, fsfile, fsexists, scall, sretS, sretF>>
dvars == <<dpc, dataset, dcall, dret>>
avars == <<allocations, before, acall, aret>>
nvars == <<session_id, time_opened, ddir, zos, ncall, nret>>
vars == <<hpc, value, hex, call, ret,
          spc, string_output, outfile, fsfile, fsexists, scall, sretS, sretF,
          dpc, dataset, dcall, dret,
          allocations, before, acall, aret,
          session_id, time_opened, ddir, zos, ncall, nret>>

(***************************************************************************)
(* Bounds of the model.                                                    *)
(***************************************************************************)
\* longest constructor argument of the receiver
MaxLen == 3
\* longest constructor argument of the right-hand operand
MaxOperandLen == 2
\* largest magnitude of an integer constructor argument
MaxInt == 17
\* most digits of a value on which integer arithmetic is explored
MaxIntDigits == 6
\* longest subcommand output
MaxText == 3
\* longest label, end string or separator
MaxNeedle == 2
\* start and end arguments range over -MaxIdx..MaxIdx
MaxIdx == 4
\* largest length argument of get_field2 and rget_field2
MaxLength == 2
\* the longest list of datasets an allocation holds
MaxList == 2

(***************************************************************************)
(* Outcomes of a call: a returned value of some kind, or a raised error.  *)
(***************************************************************************)
R(kind, val, num, err) ==
  [kind |-> kind, val |-> val, num |-> num, err |-> err, s |-> 0, e |-> 0]
RNone == R("none", <<>>, 0, "")
RHex(v) == R("Hex", v, 0, "")
RStr(s) == R("str", s, 0, "")
RInt(n) == R("int", <<>>, n, "")
RBool(b) == R("bool", <<>>, IF b THEN 1 ELSE 0, "")
Raise(e) == R("raise", <<>>, 0, e)
\* the list [val, s, e] of the get_field family; hexed: val is a Hex
RField(hexed, val, s, e) ==
  [kind |-> IF hexed THEN "fieldhex" ELSE "field", val |-> val, num |-> 0, err |-> "",
   s |-> s, e |-> e]
\* [None, -1, -1]
RNoField == [kind |-> "nofield", val |-> <<>>, num |-> 0, err |-> "", s |-> -1, e |-> -1]

(***************************************************************************)
(* Python built-ins used by the code.                                      *)
(***************************************************************************)
Min(a, b) == IF a < b THEN a ELSE b
Max(a, b) == IF a < b THEN b ELSE a

HexDigitChars ==
  {"0", "1", "2", "3", "4", "5", "6", "7", "8", "9",
   "A", "B", "C", "D", "E", "F", "a", "b", "c", "d", "e", "f"}
HexChars == <<"0", "1", "2", "3", "4", "5", "6", "7",
              "8", "9", "A", "B", "C", "D", "E", "F">>
LowerHexChars == <<"0", "1", "2", "3", "4", "5", "6", "7",
                   "8", "9", "a", "b", "c", "d", "e", "f">>
Range(s) == {s[i] : i \in 1..Len(s)}
Whitespace == {" ", "\n", "\t"}

\* str.upper() on one character
UpperChar(c) ==
  CASE c = "a" -> "A" [] c = "b" -> "B" [] c = "c" -> "C" [] c = "d" -> "D"
    [] c = "e" -> "E" [] c = "f" -> "F" [] c = "x" -> "X" [] OTHER -> c

\* str.upper()
PyUpper(s) == [i \in 1..Len(s) |-> UpperChar(s[i])]

\* "".join(s.split()): every whitespace character removed
StripAllWhitespace(s) == SelectSeq(s, LAMBDA c : c \notin Whitespace)

StartsWith(s, p) == Len(s) >= Len(p) /\ SubSeq(s, 1, Len(p)) = p

\* str.removeprefix(p)
RemovePrefix(s, p) == IF StartsWith(s, p) THEN SubSeq(s, Len(p) + 1, Len(s)) ELSE s

\* str.strip()
RECURSIVE LStrip(_)
LStrip(s) == IF s # <<>> /\ Head(s) \in Whitespace THEN LStrip(Tail(s)) ELSE s
RECURSIVE RStrip(_)
RStrip(s) ==
  IF s # <<>> /\ s[Len(s)] \in Whitespace THEN RStrip(SubSeq(s, 1, Len(s) - 1)) ELSE s
PyStrip(s) == LStrip(RStrip(s))

\* str.zfill(width)
RECURSIVE ZFill(_, _)
ZFill(s, width) == IF Len(s) >= width THEN s ELSE ZFill(<<"0">> \o s, width)

\* the index a slice bound denotes in a sequence of length n
\* (given = FALSE is None; lower = TRUE for the start of the slice)
SliceBound(given, i, n, lower) ==
  IF ~given THEN (IF lower THEN 0 ELSE n)
  ELSE IF i < 0 THEN Max(i + n, 0) ELSE Min(i, n)

\* s[a:b] of Python, a and b possibly None, negative or out of range
PySlice(s, aGiven, a, bGiven, b) ==
  LET lo == SliceBound(aGiven, a, Len(s), TRUE)
      hi == SliceBound(bGiven, b, Len(s), FALSE)
  IN  IF lo < hi THEN SubSeq(s, lo + 1, hi) ELSE <<>>

\* hex(n) for n >= 0, without the "0x": lower case, no leading zeros
RECURSIVE LowerDigits(_)
LowerDigits(n) ==
  IF n < 16 THEN <<LowerHexChars[n + 1]>>
  ELSE LowerDigits(n \div 16) \o <<LowerHexChars[(n % 16) + 1]>>

\* hex(n) for n >= 0
PyHex(n) == <<"0", "x">> \o LowerDigits(n)

DigitVal(c) == CHOOSE d \in 0..15 : HexChars[d + 1] = c

\* int(digits, 16) for a non-empty string of upper-case hex digits
RECURSIVE DigitsToInt(_)
DigitsToInt(d) ==
  IF d = <<>> THEN 0
  ELSE 16 * DigitsToInt(SubSeq(d, 1, Len(d) - 1)) + DigitVal(d[Len(d)])

\* int.bit_length() of n >= 0
RECURSIVE BitLength(_)
BitLength(n) == IF n = 0 THEN 0 ELSE 1 + BitLength(n \div 2)

\* 1 << k
RECURSIVE Pow2(_)
Pow2(k) == IF k = 0 THEN 1 ELSE 2 * Pow2(k - 1)

\* a // b of Python that truncates toward zero instead of flooring
TruncDiv(a, b) ==
  LET q == (IF a < 0 THEN -a ELSE a) \div (IF b < 0 THEN -b ELSE b)
  IN  IF (a < 0) = (b < 0) THEN q ELSE -q

\* a // b of Python (b # 0): floor of the quotient
PyFloorDiv(a, b) == a \div b

\* a % b of Python (b # 0): the sign follows the divisor
PyMod(a, b) == a - b * PyFloorDiv(a, b)

\* a & b and a | b of Python integers (two's complement of unbounded width)
RECURSIVE PyAnd(_, _)
PyAnd(a, b) ==
  IF a = 0 \/ b = 0 THEN 0
  ELSE IF a = -1 THEN b
  ELSE IF b = -1 THEN a
  ELSE 2 * PyAnd(a \div 2, b \div 2) + (IF a % 2 = 1 /\ b % 2 = 1 THEN 1 ELSE 0)
RECURSIVE PyOr(_, _)
PyOr(a, b) ==
  IF a = 0 THEN b
  ELSE IF b = 0 THEN a
  ELSE IF a = -1 \/ b = -1 THEN -1
  ELSE 2 * PyOr(a \div 2, b \div 2) + (IF a % 2 = 1 \/ b % 2 = 1 THEN 1 ELSE 0)

(***************************************************************************)
(* Hex (hex_obj.py).  A constructor argument is [t |-> "str", s |-> text, *)
(* n |-> 0] or [t |-> "int", s |-> <<>>, n |-> integer].                   *)
(***************************************************************************)
StrArg(s) == [t |-> "str", s |-> s, n |-> 0]
IntArg(n) == [t |-> "int", s |-> <<>>, n |-> n]

\* Hex.__init__ on a string that puts the sign back even when every digit is 0
HexOfStrKeepSign(s) ==
  LET nows == StripAllWhitespace(s)
      up == PyUpper(nows)
      neg == StartsWith(up, <<"-">>)
      nosign == IF neg THEN RemovePrefix(up, <<"-">>) ELSE up
      sgn == IF neg THEN <<"-">> ELSE <<>>
      digits == RemovePrefix(nosign, <<"0", "X">>)
  IN  IF SelectSeq(digits, LAMBDA c : c \notin HexDigitChars) # <<>>
      THEN Raise("ValueError")
      ELSE RHex(sgn \o digits)

\* Hex.__init__ on a string: the stored __value, or ValueError
HexOfStr(s) ==
  LET nows == StripAllWhitespace(s)
      up == PyUpper(nows)
      neg == StartsWith(up, <<"-">>)
      nosign == IF neg THEN RemovePrefix(up, <<"-">>) ELSE up
      sgn == IF neg THEN <<"-">> ELSE <<>>
      digits == RemovePrefix(nosign, <<"0", "X">>)
  IN  IF SelectSeq(digits, LAMBDA c : c \notin HexDigitChars) # <<>>
      THEN Raise("ValueError")
      ELSE IF \E i \in 1..Len(digits) : digits[i] # "0"
           THEN RHex(sgn \o digits)
           ELSE RHex(digits)

\* Hex.__init__
Hex_init(v) ==
  IF v.t = "int"
  THEN IF v.n < 0 THEN HexOfStr(<<"-">> \o PyHex(v.n * (-1)))
       ELSE HexOfStr(PyHex(v.n))
  ELSE HexOfStr(v.s)

\* Hex(n).to_str() for an integer n (never raises)
HexOfInt(n) == Hex_init(IntArg(n)).val

\* Hex.sign
sign(v) == IF StartsWith(v, <<"-">>) THEN <<"-">> ELSE <<>>

\* Hex.unsigned().to_str()
unsigned(v) == HexOfStr(RemovePrefix(v, <<"-">>)).val

\* does int(self.__value, 16) return (it raises ValueError without digits)
IntOk(v) == RemovePrefix(v, <<"-">>) # <<>>

\* Hex.to_int
to_int(v) ==
  IF StartsWith(v, <<"-">>) THEN - DigitsToInt(RemovePrefix(v, <<"-">>))
  ELSE DigitsToInt(v)

\* Hex.to_str
to_str(v) == v

\* the digits of int(v, 16) written without leading zeros, with the sign of
\* a value that is not zero: two values have the same int exactly when
\* these are the same
RECURSIVE StripZeros(_)
StripZeros(d) == IF d # <<>> /\ Head(d) = "0" THEN StripZeros(Tail(d)) ELSE d
IntDigits(v) ==
  LET d == StripZeros(RemovePrefix(v, <<"-">>))
  IN  IF d = <<>> THEN <<"0">>
      ELSE IF StartsWith(v, <<"-">>) THEN <<"-">> \o d ELSE d

\* Hex.__eq__ comparing the stored strings instead of the integers
Hex_eq_same_digits(v, other) ==
  IF ~IntOk(v) \/ ~IntOk(other) THEN Raise("ValueError")
  ELSE RBool(v = other)

\* Hex.__eq__ on two Hex objects: self.to_int() == other.to_int(), compared
\* digit by digit so that values of any width can be compared
Hex_eq(v, other) ==
  IF ~IntOk(v) \/ ~IntOk(other) THEN Raise("ValueError")
  ELSE RBool(IntDigits(v) = IntDigits(other))

\* the code page ibm1047 on the characters of the model: <<character, byte>>
Ibm1047 ==
  << <<" ", <<"4", "0">> >>, <<".", <<"4", "B">> >>, <<"A", <<"C", "1">> >>,
     <<"B", <<"C", "2">> >>, <<"D", <<"C", "4">> >>, <<"E", <<"C", "5">> >>,
     <<"H", <<"C", "8">> >>, <<"I", <<"C", "9">> >>, <<"J", <<"D", "1">> >>,
     <<"M", <<"D", "4">> >>, <<"O", <<"D", "6">> >>, <<"P", <<"D", "7">> >>,
     <<"R", <<"D", "9">> >>, <<"S", <<"E", "2">> >>, <<"T", <<"E", "3">> >>,
     <<"V", <<"E", "5">> >>, <<"X", <<"E", "7">> >>, <<"0", <<"F", "0">> >>,
     <<"1", <<"F", "1">> >>, <<"2", <<"F", "2">> >>, <<"3", <<"F", "3">> >>,
     <<"4", <<"F", "4">> >>, <<"5", <<"F", "5">> >>, <<"6", <<"F", "6">> >>,
     <<"7", <<"F", "7">> >>, <<"8", <<"F", "8">> >>, <<"9", <<"F", "9">> >> >>

\* the encoding of a character
IbmEncode(c) == Ibm1047[CHOOSE k \in 1..Len(Ibm1047) : Ibm1047[k][1] = c][2]

\* bytes.decode("ibm1047") of one byte; a byte outside the table decodes to
\* a character that is neither white space nor a digit, written "?"
Ibm1047Decode ==
  [hi \in Range(HexChars), lo \in Range(HexChars) |->
     IF \E k \in 1..Len(Ibm1047) : Ibm1047[k][2] = <<hi, lo>>
     THEN Ibm1047[CHOOSE k \in 1..Len(Ibm1047) : Ibm1047[k][2] = <<hi, lo>>][1]
     ELSE "?"]
IbmDecode(hi, lo) == Ibm1047Decode[hi, lo]

\* the encoding names Python knows, of those tried
Encodings == {"ibm1047"}

\* Hex.to_char_str: two digits a byte; "" when bytes.fromhex(self.to_str())
\* or the decoding raises
to_char_str(v, encoding) ==
  IF Len(v) % 2 = 1 \/ StartsWith(v, <<"-">>) \/ encoding \notin Encodings THEN <<>>
  ELSE [i \in 1..(Len(v) \div 2) |-> IbmDecode(v[2 * i - 1], v[2 * i])]

\* Hex.bit_len
bit_len(v) == Len(unsigned(v)) * 4

\* Hex.__getitem__ with an integer key
getitem_int(v, key) ==
  LET u == RemovePrefix(v, <<"-">>)
      k == IF key < 0 THEN key + Len(u) ELSE key
  IN  IF k < 0 \/ k >= Len(u) THEN Raise("IndexError")
      ELSE HexOfStr(<<u[k + 1]>>)

\* Hex.__getitem__ with a slice key
getitem_slice(v, aGiven, a, bGiven, b) ==
  HexOfStr(PySlice(RemovePrefix(v, <<"-">>), aGiven, a, bGiven, b))

\* Hex.__get_chunk with the start index of from_right counted without the
\* chunk's own length
get_chunk_wrong_right(v, chunk, chunk_nibble_length, from_right) ==
  LET u == unsigned(v)
      start_index == IF from_right
                     THEN Len(u) - (chunk * chunk_nibble_length)
                     ELSE chunk * chunk_nibble_length
  IN  IF (chunk * chunk_nibble_length) >= Len(u) \/ chunk < 0
      THEN Raise("ValueError")
      ELSE HexOfStr(PySlice(u, TRUE, start_index, TRUE, start_index + chunk_nibble_length))

\* Hex.__get_chunk
get_chunk(v, chunk, chunk_nibble_length, from_right) ==
  LET u == unsigned(v)
      start_index == IF from_right
                     THEN Len(u) - chunk_nibble_length - (chunk * chunk_nibble_length)
                     ELSE chunk * chunk_nibble_length
  IN  IF (chunk * chunk_nibble_length) >= Len(u) \/ chunk < 0
      THEN Raise("ValueError")
      ELSE HexOfStr(PySlice(u, TRUE, start_index, TRUE, start_index + chunk_nibble_length))

get_nibble(v, nibble, from_right) == get_chunk(v, nibble, 1, from_right)
get_byte(v, byte, from_right) == get_chunk(v, byte, 2, from_right)
get_half_word(v, half_word, from_right) == get_chunk(v, half_word, 4, from_right)
get_word(v, word, from_right) == get_chunk(v, word, 8, from_right)
get_doubleword(v, doubleword, from_right) == get_chunk(v, doubleword, 16, from_right)

\* Hex.concat with one Hex
concat(v, other) == HexOfStr(to_str(v) \o unsigned(other))

\* Hex.concat with an iterable of Hex
RECURSIVE concat_iter(_, _)
concat_iter(v, others) ==
  IF others = <<>> THEN HexOfStr(to_str(v))
  ELSE concat_iter(HexOfStr(to_str(v) \o unsigned(Head(others))).val, Tail(others))

\* Hex.resize that pads but never truncates
resize_no_truncate(v, new_bit_length) ==
  IF new_bit_length < 0 THEN Raise("ValueError")
  ELSE IF ~IntOk(unsigned(v)) THEN Raise("ValueError")
  ELSE HexOfStr(sign(v) \o ZFill(LowerDigits(to_int(unsigned(v))),
                                 -((-new_bit_length) \div 4)))

\* Hex.resize
resize(v, new_bit_length) ==
  IF new_bit_length < 0 THEN Raise("ValueError")
  ELSE IF ~IntOk(unsigned(v)) THEN Raise("ValueError")
  ELSE LET n0 == to_int(unsigned(v))
           new_hex_int == IF new_bit_length < BitLength(n0)
                          THEN PyAnd(n0, Pow2(new_bit_length) - 1)
                          ELSE n0
           new_hex_str == RemovePrefix(PyHex(new_hex_int), <<"0", "x">>)
           new_str_length == -((-new_bit_length) \div 4)
       IN  HexOfStr(sign(v) \o ZFill(new_hex_str, new_str_length))

\* hex(d)[2:] cut to its last digit
LastDigit(d) == LET h == LowerDigits(d) IN <<h[Len(h)]>>

\* the bit position counted from the left
BitPos(v, bit_position, from_right) ==
  IF from_right THEN Len(unsigned(v)) * 4 - 1 - bit_position ELSE bit_position

\* Hex.turn_on_bit
turn_on_bit(v, bit_position, from_right) ==
  LET hex_part == unsigned(v)
      bit_length == Len(hex_part) * 4
      p == BitPos(v, bit_position, from_right)
      index == p \div 4
      new_digit_value == PyOr(DigitVal(hex_part[index + 1]), Pow2(3 - (p % 4)))
  IN  IF p >= bit_length \/ p < 0 THEN Raise("ValueError")
      ELSE HexOfStr(sign(v) \o SubSeq(hex_part, 1, index) \o LastDigit(new_digit_value)
                    \o SubSeq(hex_part, index + 2, Len(hex_part)))

\* Hex.turn_off_bit that clears the whole digit holding the bit
turn_off_bit_whole_digit(v, bit_position, from_right) ==
  LET hex_part == unsigned(v)
      bit_length == Len(hex_part) * 4
      p == BitPos(v, bit_position, from_right)
      index == p \div 4
  IN  IF p >= bit_length \/ p < 0 THEN Raise("ValueError")
      ELSE HexOfStr(sign(v) \o SubSeq(hex_part, 1, index) \o <<"0">>
                    \o SubSeq(hex_part, index + 2, Len(hex_part)))

\* Hex.turn_off_bit
turn_off_bit(v, bit_position, from_right) ==
  LET hex_part == unsigned(v)
      bit_length == Len(hex_part) * 4
      p == BitPos(v, bit_position, from_right)
      index == p \div 4
      new_digit_value == PyAnd(DigitVal(hex_part[index + 1]), -Pow2(3 - (p % 4)) - 1)
  IN  IF p >= bit_length \/ p < 0 THEN Raise("ValueError")
      ELSE HexOfStr(sign(v) \o SubSeq(hex_part, 1, index) \o LastDigit(new_digit_value)
                    \o SubSeq(hex_part, index + 2, Len(hex_part)))

\* Hex.check_bit that reads the bits of a digit in the opposite order
check_bit_mirrored(v, bit_position, from_right) ==
  LET hex_part == unsigned(v)
      bit_length == Len(hex_part) * 4
      p == BitPos(v, bit_position, from_right)
      index == p \div 4
  IN  IF ~(0 <= p /\ p < bit_length) THEN Raise("ValueError")
      ELSE RBool(PyAnd(DigitVal(hex_part[index + 1]), Pow2(p % 4)) # 0)

\* Hex.check_bit
check_bit(v, bit_position, from_right) ==
  LET hex_part == unsigned(v)
      bit_length == Len(hex_part) * 4
      p == BitPos(v, bit_position, from_right)
      index == p \div 4
  IN  IF ~(0 <= p /\ p < bit_length) THEN Raise("ValueError")
      ELSE RBool(PyAnd(DigitVal(hex_part[index + 1]), Pow2(3 - (p % 4))) # 0)

\* the integer operation behind each operator of Hex
IntOp(op, a, b) ==
  CASE op = "add" -> a + b
    [] op = "sub" -> a - b
    [] op = "mul" -> a * b
    [] op = "truediv" -> PyFloorDiv(a, b)
    [] op = "mod" -> PyMod(a, b)
    [] op = "or" -> PyOr(a, b)
    [] op = "and" -> PyAnd(a, b)

\* the re-padding of an operator's result that leaves the result as it is
PadToSelfNever(new_hex_obj, v) == new_hex_obj

\* if new_hex_obj.bit_len() < self.bit_len(): resize(self.bit_len())
PadToSelf(new_hex_obj, v) ==
  IF bit_len(new_hex_obj) < bit_len(v) THEN resize(new_hex_obj, bit_len(v)).val
  ELSE new_hex_obj

\* Hex.__add__, __sub__, __mul__, __truediv__, __mod__, __or__, __and__
\* with a Hex operand
HexBinOp(op, v, other) ==
  IF ~IntOk(v) \/ ~IntOk(other) THEN Raise("ValueError")
  ELSE IF op \in {"truediv", "mod"} /\ to_int(other) = 0 THEN Raise("ZeroDivisionError")
  ELSE RHex(PadToSelf(HexOfInt(IntOp(op, to_int(v), to_int(other))), v))

\* the comparison operators: __eq__, __ne__, __lt__, __le__, __gt__, __ge__
CompareOps == {"eq", "ne", "lt", "le", "gt", "ge"}

\* not r, for the outcome r of __eq__
PyNot(r) == IF r.kind = "bool" THEN RBool(r.num = 0) ELSE r

\* self.to_int() < other.to_int() and the like
IntCompare(op, a, b) ==
  CASE op = "lt" -> a < b
    [] op = "le" -> a <= b
    [] op = "gt" -> a > b
    [] op = "ge" -> a >= b

\* a comparison operator applied to two Hex objects
HexCompare(op, v, other) ==
  IF op = "eq" THEN Hex_eq(v, other)
  ELSE IF op = "ne" THEN PyNot(Hex_eq(v, other))
  ELSE IF ~IntOk(v) \/ ~IntOk(other) THEN Raise("ValueError")
  ELSE RBool(IntCompare(op, to_int(v), to_int(other)))

\* a comparison operator applied to a Hex and an operand that is not a Hex
HexCompareNonHex(op) ==
  IF op = "eq" THEN RBool(FALSE)
  ELSE IF op = "ne" THEN RBool(TRUE)
  ELSE Raise("TypeError")

(***************************************************************************)
(* The inputs explored.                                                    *)
(***************************************************************************)
SeqsUpTo(S, n) == UNION {[1..k -> S] : k \in 0..n}

\* characters of the receiver's constructor argument
InChars == {"0", "8", "a", "F", "-", "x", " "}
\* characters of the operand's constructor argument
OperandChars == {"0", "3", "F", "-"}
\* the 16-digit value of the tests of get_word and get_doubleword
LongValue == <<"0", "1", "2", "3", "4", "5", "6", "7",
               "8", "9", "A", "B", "C", "D", "E", "F">>

\* the 8-digit values of the tests of get_byte
ByteValues == {<<"1", "2", "3", "4", "A", "B", "C", "D">>,
               <<"-", "1", "2", "3", "4", "A", "B", "C", "D">>}

\* the value of the test of to_char_str ("TEST" in ibm1047), and its opposite
CharValues == {<<"E", "3", "C", "5", "E", "2", "E", "3">>,
               <<"-", "E", "3", "C", "5", "E", "2", "E", "3">>}

\* the encoding arguments tried: the default, and a name Python does not know
EncodingArgs == {"ibm1047", "nonsense"}

Values ==
  {StrArg(s) : s \in SeqsUpTo(InChars, MaxLen) \cup {LongValue} \cup ByteValues
                       \cup CharValues}
    \cup {IntArg(n) : n \in (-MaxInt)..MaxInt}

\* the Hex objects an operand can be
Operands ==
  {Hex_init(StrArg(s)).val :
     s \in {t \in SeqsUpTo(OperandChars, MaxOperandLen) : Hex_init(StrArg(t)).kind = "Hex"}}

\* the operands that are not Hex objects: the strings of the tests
StrOperands == {<<"3">>, <<"1">>}

\* the iterables given to concat
OperandLists == SeqsUpTo({o \in Operands : Len(o) <= 1}, 2)

\* chunk indexes, bit positions and bit lengths tried
ChunkArgs == (-1)..(MaxLen + 1)
BitArgs == (-1)..(4 * MaxLen + 1)
SizeArgs == (-1)..(4 * MaxLen + 5)
KeyArgs == (-(MaxLen + 1))..(MaxLen + 1)

Call(op, other, others, n, ng, m, mg, fr) ==
  [op |-> op, other |-> other, others |-> others,
   n |-> n, ng |-> ng, m |-> m, mg |-> mg, fr |-> fr, t |-> "Hex"]
NoCall == Call("none", <<>>, <<>>, 0, FALSE, 0, FALSE, FALSE)
CallN(op, n, fr) == Call(op, <<>>, <<>>, n, TRUE, 0, FALSE, fr)
CallO(op, other) == Call(op, other, <<>>, 0, FALSE, 0, FALSE, FALSE)
Call0(op) == Call(op, <<>>, <<>>, 0, FALSE, 0, FALSE, FALSE)
\* a call whose operand is a str, not a Hex
CallStr(op, other) == [CallO(op, other) EXCEPT !.t = "str"]

\* a call on a Subcmd: a is the substring or label, b the end string
SCall(op, a, b, sep, start, sg, end, eg, to_hex) ==
  [op |-> op, a |-> a, b |-> b, sep |-> sep, start |-> start, sg |-> sg,
   end |-> end, eg |-> eg, to_hex |-> to_hex, length |-> 0]
\* a call of get_field2 or rget_field2
SCall2(op, a, length, sep, start, end, eg, to_hex) ==
  [SCall(op, a, <<>>, sep, start, TRUE, end, eg, to_hex) EXCEPT !.length = length]
NoSCall == SCall("none", <<>>, <<>>, <<>>, 0, FALSE, 0, FALSE, FALSE)

\* integer arithmetic is explored on values of at most MaxIntDigits digits
Small(v) == Len(RemovePrefix(v, <<"-">>)) <= MaxIntDigits

\* the outcome of a decoder: the header_data returned (its keys and the
\* values the model follows), or the error raised
NoRec ==
  [keys |-> {}, dump_type |-> <<>>, sysname |-> <<>>, version |-> 0,
   blocks_allocated_decimal |-> 0, remote_sysname |-> <<>>, remote_dump |-> FALSE]
HNone == [kind |-> "none", err |-> "", rec |-> NoRec]
HRaise(err) == [kind |-> "raise", err |-> err, rec |-> NoRec]
HRecord(rec) == [kind |-> "record", err |-> "", rec |-> rec]

\* the part of the state of the header decoders, idle in the behaviours of
\* Hex and of Subcmd
AlocIdle ==
  /\ allocations = <<>>
  /\ before = <<>>
  /\ acall = "none"
  /\ aret = "none"

\* the part of the state of IpcsSession, idle in the other behaviours
SessIdle ==
  /\ session_id = "None"
  /\ time_opened = "None"
  /\ ddir = "None"
  /\ zos = {}
  /\ ncall = "none"
  /\ nret = "none"

\* the part of the state of DumpHeader, idle in the other behaviours
HdrIdle ==
  /\ dpc = "idle"
  /\ dataset = [lrecl |-> 0, block_size |-> 0, records |-> <<>>]
  /\ dcall = "none"
  /\ dret = HNone

\* the part of the state of Subcmd, idle in the behaviours of Hex
SubIdle ==
  /\ spc = "idle"
  /\ string_output = <<>>
  /\ outfile = "None"
  /\ fsfile = <<>>
  /\ fsexists = FALSE
  /\ scall = NoSCall
  /\ sretS = RNone
  /\ sretF = RNone

(***************************************************************************)
(* Hex: one object is constructed from `value`, then one method is called. *)
(***************************************************************************)
HexInit ==
  /\ hpc = "new"
  /\ value \in Values
  /\ hex = <<>>
  /\ call = NoCall
  /\ ret = RNone
  /\ SubIdle
  /\ HdrIdle
  /\ AlocIdle
  /\ SessIdle

\* Hex(value)
HexNew ==
  /\ hpc = "new"
  /\ LET r == Hex_init(value)
     IN  /\ ret' = r
         /\ hex' = r.val
         /\ hpc' = IF r.kind = "Hex" THEN "ready" ELSE "failed"
  /\ call' = Call0("init")
  /\ UNCHANGED <<value>>
  /\ UNCHANGED <<svars, dvars, avars, nvars>>

\* the common shape of a method call on the constructed object
Does(c, r) ==
  /\ call' = c
  /\ ret' = r
  /\ hpc' = "done"
  /\ UNCHANGED <<value, hex>>
  /\ UNCHANGED <<svars, dvars, avars, nvars>>

HexSign ==
  /\ hpc = "ready"
  /\ Does(Call0("sign"), RStr(sign(hex)))
HexUnsigned ==
  /\ hpc = "ready"
  /\ Does(Call0("unsigned"), RHex(unsigned(hex)))
HexGetItemInt ==
  /\ hpc = "ready"
  /\ \E key \in KeyArgs : Does(CallN("getitem", key, FALSE), getitem_int(hex, key))
HexGetItemSlice ==
  /\ hpc = "ready"
  /\ \E ag \in BOOLEAN, bg \in BOOLEAN, a \in KeyArgs, b \in KeyArgs :
       /\ ag \/ a = 0
       /\ bg \/ b = 0
       /\ Does(Call("getslice", <<>>, <<>>, a, ag, b, bg, FALSE),
               getitem_slice(hex, ag, a, bg, b))
HexGetNibble ==
  /\ hpc = "ready"
  /\ \E i \in ChunkArgs, fr \in BOOLEAN : Does(CallN("get_nibble", i, fr), get_nibble(hex, i, fr))
HexGetByte ==
  /\ hpc = "ready"
  /\ \E i \in ChunkArgs, fr \in BOOLEAN : Does(CallN("get_byte", i, fr), get_byte(hex, i, fr))
HexGetHalfWord ==
  /\ hpc = "ready"
  /\ \E i \in ChunkArgs, fr \in BOOLEAN :
       Does(CallN("get_half_word", i, fr), get_half_word(hex, i, fr))
HexGetWord ==
  /\ hpc = "ready"
  /\ \E i \in ChunkArgs, fr \in BOOLEAN : Does(CallN("get_word", i, fr), get_word(hex, i, fr))
HexGetDoubleword ==
  /\ hpc = "ready"
  /\ \E i \in ChunkArgs, fr \in BOOLEAN :
       Does(CallN("get_doubleword", i, fr), get_doubleword(hex, i, fr))
HexToInt ==
  /\ hpc = "ready"
  /\ Small(hex)
  /\ Does(Call0("to_int"), IF IntOk(hex) THEN RInt(to_int(hex)) ELSE Raise("ValueError"))
HexToStr ==
  /\ hpc = "ready"
  /\ Does(Call0("to_str"), RStr(to_str(hex)))
HexConcat ==
  /\ hpc = "ready"
  /\ \E other \in Operands : Does(CallO("concat", other), concat(hex, other))
HexConcatIter ==
  /\ hpc = "ready"
  /\ \E others \in OperandLists :
       Does(Call("concat", <<>>, others, 0, FALSE, 0, FALSE, FALSE), concat_iter(hex, others))
HexResize ==
  /\ hpc = "ready"
  /\ Small(hex)
  /\ \E n \in SizeArgs : Does(CallN("resize", n, FALSE), resize(hex, n))
HexBitLen ==
  /\ hpc = "ready"
  /\ Does(Call0("bit_len"), RInt(bit_len(hex)))
HexTurnOnBit ==
  /\ hpc = "ready"
  /\ \E p \in BitArgs, fr \in BOOLEAN : Does(CallN("turn_on_bit", p, fr), turn_on_bit(hex, p, fr))
HexTurnOffBit ==
  /\ hpc = "ready"
  /\ \E p \in BitArgs, fr \in BOOLEAN :
       Does(CallN("turn_off_bit", p, fr), turn_off_bit(hex, p, fr))
HexCheckBit ==
  /\ hpc = "ready"
  /\ \E p \in BitArgs, fr \in BOOLEAN : Does(CallN("check_bit", p, fr), check_bit(hex, p, fr))

HexBin(op) ==
  /\ hpc = "ready"
  /\ Small(hex)
  /\ \E other \in Operands : Does(CallO(op, other), HexBinOp(op, hex, other))
HexAdd == HexBin("add")
HexSub == HexBin("sub")
HexMul == HexBin("mul")
HexTrueDiv == HexBin("truediv")
HexMod == HexBin("mod")
HexOr == HexBin("or")
HexAnd == HexBin("and")

\* self.to_char_str(encoding); the call keeps the encoding name in `other`
HexToCharStr ==
  /\ hpc = "ready"
  /\ \E encoding \in EncodingArgs :
       Does(CallO("to_char_str", <<encoding>>), RStr(to_char_str(hex, encoding)))

\* self == other, self < other, ... with a Hex operand
HexCmp ==
  /\ hpc = "ready"
  /\ Small(hex)
  /\ \E op \in CompareOps, other \in Operands :
       Does(CallO(op, other), HexCompare(op, hex, other))

\* self == other, self < other, ... with a str operand
HexCmpStr ==
  /\ hpc = "ready"
  /\ \E op \in CompareOps, other \in StrOperands :
       Does(CallStr(op, other), HexCompareNonHex(op))

HexNext ==
  \/ HexNew
  \/ HexSign
  \/ HexUnsigned
  \/ HexGetItemInt
  \/ HexGetItemSlice
  \/ HexGetNibble
  \/ HexGetByte
  \/ HexGetHalfWord
  \/ HexGetWord
  \/ HexGetDoubleword
  \/ HexToInt
  \/ HexToStr
  \/ HexConcat
  \/ HexConcatIter
  \/ HexResize
  \/ HexBitLen
  \/ HexTurnOnBit
  \/ HexTurnOffBit
  \/ HexCheckBit
  \/ HexAdd
  \/ HexSub
  \/ HexMul
  \/ HexTrueDiv
  \/ HexMod
  \/ HexOr
  \/ HexAnd
  \/ HexCmp
  \/ HexToCharStr
  \/ HexCmpStr

SpecHex == HexInit /\ [][HexNext]_vars

(***************************************************************************)
(* psw_scrunch (util/ipcs_util.py).                                        *)
(***************************************************************************)
\* Hex.__or__ on two unsigned words of 8 digits: self.to_int() | other.to_int()
\* re-padded to the width of self, computed on the two half words, each of
\* which is within the integers of the model checker
or_words(v, other) ==
  HexBinOp("or", SubSeq(v, 1, 4), SubSeq(other, 1, 4)).val
    \o HexBinOp("or", SubSeq(v, 5, 8), SubSeq(other, 5, 8)).val

\* psw_scrunch that leaves bit 12 as it is
psw_scrunch_keeps_bit_12(psw) ==
  IF sign(psw) = <<"-">> THEN Raise("ValueError")
  ELSE IF bit_len(psw) = 64 THEN RHex(psw)
  ELSE IF bit_len(psw) # 128 THEN Raise("ValueError")
  ELSE LET second_half == or_words(get_word(psw, 1, FALSE).val, get_word(psw, 3, FALSE).val)
       IN  concat(get_word(psw, 0, FALSE).val, second_half)

\* psw_scrunch
psw_scrunch(psw) ==
  IF sign(psw) = <<"-">> THEN Raise("ValueError")
  ELSE IF bit_len(psw) = 64 THEN RHex(psw)
  ELSE IF bit_len(psw) # 128 THEN Raise("ValueError")
  ELSE LET turned == turn_on_bit(psw, 12, FALSE).val
           second_half == or_words(get_word(turned, 1, FALSE).val,
                                   get_word(turned, 3, FALSE).val)
       IN  concat(get_word(turned, 0, FALSE).val, second_half)

\* the words the PSWs explored are made of: those of the first PSW of
\* test_psw_scrunch, and words of zeros and of ones
PswWords ==
  {<<"0", "7", "0", "4", "3", "0", "0", "0">>,
   <<"8", "0", "0", "0", "0", "0", "0", "0">>,
   <<"0", "0", "0", "0", "0", "0", "0", "0">>,
   <<"0", "5", "4", "3", "8", "7", "A", "A">>,
   <<"F", "F", "F", "F", "F", "F", "F", "F">>}

\* PSWs of one to four words, these with a sign, and those of two and of
\* four words without their last digit
Psws ==
  LET one == PswWords
      two == {a \o b : a \in PswWords, b \in PswWords}
      four == {a \o b : a \in two, b \in two}
      whole == one \cup two \cup {a \o b : a \in two, b \in one} \cup four
      cut == {SubSeq(p, 1, Len(p) - 1) : p \in two} \cup
             {SubSeq(a \o a, 1, 31) : a \in two}
  IN  whole \cup cut \cup {<<"-">> \o p : p \in two \cup {a \o a : a \in two}}

PswInit ==
  /\ hpc = "ready"
  /\ hex \in {p \in Psws : HexOfStr(p).val = p}
  /\ value = StrArg(hex)
  /\ call = NoCall
  /\ ret = RNone
  /\ SubIdle
  /\ HdrIdle
  /\ AlocIdle
  /\ SessIdle

\* psw_scrunch(psw)
PswScrunch ==
  /\ hpc = "ready"
  /\ Does(Call0("psw_scrunch"), psw_scrunch(hex))

\* psw_scrunch applied to the PSW that psw_scrunch returned
PswScrunchAgain ==
  /\ hpc = "done"
  /\ ret.kind = "Hex"
  /\ hex' = ret.val
  /\ ret' = psw_scrunch(ret.val)
  /\ hpc' = "again"
  /\ UNCHANGED <<value, call>>
  /\ UNCHANGED <<svars, dvars, avars, nvars>>

PswNext ==
  \/ PswScrunch
  \/ PswScrunchAgain

SpecPsw == PswInit /\ [][PswNext]_vars

(***************************************************************************)
(* Subcmd (subcmd/subcmd.py).  A Subcmd object keeps its output either in  *)
(* __string_output or in the file named by outfile, which holds the       *)
(* output encoded in cp1047, one byte for each character.                 *)
(***************************************************************************)
\* characters of the subcommand output
TextChars == {"A", ":", " "}

\* the cp1047 code of a character: self._encoding
Cp1047(c) == CASE c = "A" -> 193 [] c = ":" -> 122 [] c = " " -> 64

\* str.encode(self._encoding)
Encode(text) == [i \in 1..Len(text) |-> Cp1047(text[i])]

\* bytes.decode(self._encoding)
Decode(bytes) ==
  [i \in 1..Len(bytes) |-> CHOOSE c \in TextChars : Cp1047(c) = bytes[i]]

\* a Subcmd object: has_string is "__string_output is not None"
SubcmdObj(has_string, text, file) ==
  [has_string |-> has_string, string_output |-> text, outfile |-> file]

Matches(s, sub, i) == SubSeq(s, i + 1, i + Len(sub)) = sub
Least(S) == CHOOSE x \in S : \A y \in S : x <= y
Greatest(S) == CHOOSE x \in S : \A y \in S : x >= y

\* str.find and str.rfind (reverse): start is not clamped to the length
StrFind(s, sub, start, eg, end, reverse) ==
  LET n == Len(s)
      e0 == IF eg THEN end ELSE n
      e1 == IF e0 > n THEN n ELSE IF e0 < 0 THEN Max(e0 + n, 0) ELSE e0
      s1 == IF start < 0 THEN Max(start + n, 0) ELSE start
      hits == {i \in s1..(e1 - Len(sub)) : Matches(s, sub, i)}
  IN  IF e1 - s1 < Len(sub) \/ hits = {} THEN -1
      ELSE IF reverse THEN Greatest(hits) ELSE Least(hits)

\* mmap.find and mmap.rfind (reverse): start and end are both clamped
MmapFind(data, sub, start, eg, end, reverse) ==
  LET n == Len(data)
      e0 == IF eg THEN end ELSE n
      e1 == IF e0 < 0 THEN Max(e0 + n, 0) ELSE Min(e0, n)
      s1 == IF start < 0 THEN Max(start + n, 0) ELSE Min(start, n)
      hits == {i \in s1..(e1 - Len(sub)) : Matches(data, sub, i)}
  IN  IF hits = {} THEN -1
      ELSE IF reverse THEN Greatest(hits) ELSE Least(hits)

\* opening the mapping fails on a released or an empty file:
\* "" when it opens, else the error raised
MmapError(o, file) ==
  IF o.outfile = "None" THEN "RuntimeError"
  ELSE IF Len(file) = 0 THEN "ValueError"
  ELSE ""

\* Subcmd.__len__
Sub_len(o, file) ==
  IF o.has_string THEN RInt(Len(o.string_output))
  ELSE IF MmapError(o, file) # "" THEN Raise(MmapError(o, file))
  ELSE RInt(Len(file))

\* Subcmd.__getitem__ with an integer key
Sub_getitem_int(o, file, key) ==
  IF o.has_string
  THEN LET k == IF key < 0 THEN key + Len(o.string_output) ELSE key
       IN  IF k < 0 \/ k >= Len(o.string_output) THEN Raise("IndexError")
           ELSE RStr(<<o.string_output[k + 1]>>)
  ELSE IF MmapError(o, file) # "" THEN Raise(MmapError(o, file))
  ELSE LET k == IF key < 0 THEN Len(file) + key ELSE key
       IN  RStr(Decode(PySlice(file, TRUE, k, TRUE, k + 1)))

\* Subcmd.__getitem__ with a slice key
Sub_getitem_slice(o, file, ag, a, bg, b) ==
  IF o.has_string THEN RStr(PySlice(o.string_output, ag, a, bg, b))
  ELSE IF MmapError(o, file) # "" THEN Raise(MmapError(o, file))
  ELSE RStr(Decode(PySlice(file, ag, a, bg, b)))

\* Subcmd.find and Subcmd.rfind (reverse)
Sub_find(o, file, substring, start, eg, end, reverse) ==
  IF o.has_string THEN RInt(StrFind(o.string_output, substring, start, eg, end, reverse))
  ELSE IF MmapError(o, file) # "" THEN Raise(MmapError(o, file))
  ELSE RInt(MmapFind(file, Encode(substring), start, eg, end, reverse))

\* Subcmd.get_field
get_field(o, file, label, end_string, separator, start, eg, end, to_hex) ==
  LET f1 == Sub_find(o, file, label, start, eg, end, FALSE)
      start_index == f1.num + Len(label) + Len(separator)
      f2 == Sub_find(o, file, end_string, start_index, eg, end, FALSE)
      end_index == f2.num
      text == Sub_getitem_slice(o, file, TRUE, start_index, TRUE, end_index)
      hexed == HexOfStr(PyStrip(text.val))
  IN  IF f1.kind = "raise" THEN f1
      ELSE IF f1.num = -1 THEN RNoField
      ELSE IF f2.kind = "raise" THEN f2
      ELSE IF f2.num = -1 THEN RNoField
      ELSE IF text.kind = "raise" THEN text
      ELSE IF to_hex
           THEN IF hexed.kind = "raise" THEN hexed
                ELSE RField(TRUE, hexed.val, start_index, end_index)
           ELSE RField(FALSE, text.val, start_index, end_index)

\* the return of get_field2 and rget_field2 with a field one character longer
field2_one_more(o, file, f1, label, length, separator, to_hex) ==
  LET start_index == f1.num + Len(label) + Len(separator)
      end_index == start_index + length + 1
      text == Sub_getitem_slice(o, file, TRUE, start_index, TRUE, end_index)
      hexed == HexOfStr(PyStrip(text.val))
  IN  IF f1.kind = "raise" THEN f1
      ELSE IF f1.num = -1 THEN RNoField
      ELSE IF text.kind = "raise" THEN text
      ELSE IF to_hex
           THEN IF hexed.kind = "raise" THEN hexed
                ELSE RField(TRUE, hexed.val, start_index, end_index)
           ELSE RField(FALSE, text.val, start_index, end_index)

\* a field of fixed length: the return of get_field2 and rget_field2 once
\* the label was found at f1
field2(o, file, f1, label, length, separator, to_hex) ==
  LET start_index == f1.num + Len(label) + Len(separator)
      end_index == start_index + length
      text == Sub_getitem_slice(o, file, TRUE, start_index, TRUE, end_index)
      hexed == HexOfStr(PyStrip(text.val))
  IN  IF f1.kind = "raise" THEN f1
      ELSE IF f1.num = -1 THEN RNoField
      ELSE IF text.kind = "raise" THEN text
      ELSE IF to_hex
           THEN IF hexed.kind = "raise" THEN hexed
                ELSE RField(TRUE, hexed.val, start_index, end_index)
           ELSE RField(FALSE, text.val, start_index, end_index)

\* Subcmd.get_field2
get_field2(o, file, label, length, separator, start, eg, end, to_hex) ==
  field2(o, file, Sub_find(o, file, label, start, eg, end, FALSE),
         label, length, separator, to_hex)

\* Subcmd.rget_field that searches the end string from the end as well
rget_field_end_reversed(o, file, label, end_string, separator, start, eg, end, to_hex) ==
  LET f1 == Sub_find(o, file, label, start, eg, end, TRUE)
      start_index == f1.num + Len(label) + Len(separator)
      f2 == Sub_find(o, file, end_string, start_index, eg, end, TRUE)
      end_index == f2.num
      text == Sub_getitem_slice(o, file, TRUE, start_index, TRUE, end_index)
      hexed == HexOfStr(PyStrip(text.val))
  IN  IF f1.kind = "raise" THEN f1
      ELSE IF f1.num = -1 THEN RNoField
      ELSE IF f2.kind = "raise" THEN f2
      ELSE IF f2.num = -1 THEN RNoField
      ELSE IF text.kind = "raise" THEN text
      ELSE IF to_hex
           THEN IF hexed.kind = "raise" THEN hexed
                ELSE RField(TRUE, hexed.val, start_index, end_index)
           ELSE RField(FALSE, text.val, start_index, end_index)

\* Subcmd.rget_field
rget_field(o, file, label, end_string, separator, start, eg, end, to_hex) ==
  LET f1 == Sub_find(o, file, label, start, eg, end, TRUE)
      start_index == f1.num + Len(label) + Len(separator)
      f2 == Sub_find(o, file, end_string, start_index, eg, end, FALSE)
      end_index == f2.num
      text == Sub_getitem_slice(o, file, TRUE, start_index, TRUE, end_index)
      hexed == HexOfStr(PyStrip(text.val))
  IN  IF f1.kind = "raise" THEN f1
      ELSE IF f1.num = -1 THEN RNoField
      ELSE IF f2.kind = "raise" THEN f2
      ELSE IF f2.num = -1 THEN RNoField
      ELSE IF text.kind = "raise" THEN text
      ELSE IF to_hex
           THEN IF hexed.kind = "raise" THEN hexed
                ELSE RField(TRUE, hexed.val, start_index, end_index)
           ELSE RField(FALSE, text.val, start_index, end_index)

\* Subcmd.rget_field2
rget_field2(o, file, label, length, separator, start, eg, end, to_hex) ==
  field2(o, file, Sub_find(o, file, label, start, eg, end, TRUE),
         label, length, separator, to_hex)

\* Subcmd.delete_file that removes the file and keeps the attribute outfile
delete_file_keeps_outfile(path, exists) ==
  [outfile |-> path, exists |-> FALSE]

\* Subcmd.delete_file: the attribute outfile and whether the file exists
\* after the call
delete_file(path, exists) ==
  IF path = "None" THEN [outfile |-> path, exists |-> exists]
  ELSE IF exists THEN [outfile |-> "None", exists |-> FALSE]
  ELSE [outfile |-> path, exists |-> exists]

(***************************************************************************)
(* Subcmd: the same output is held by a string-backed object and by a     *)
(* file-backed object, and one call is made on both.                      *)
(***************************************************************************)
Texts == SeqsUpTo(TextChars, MaxText)
Needles == SeqsUpTo(TextChars, MaxNeedle)
Labels == {<<>>, <<"A">>, <<":">>, <<"A", ":">>, <<"A", "A">>}
EndStrings == {<<>>, <<" ">>, <<":">>, <<":", " ">>}
Separators == {<<>>, <<":">>, <<" ">>}
IdxArgs == (-MaxIdx)..MaxIdx
FieldStarts == (-1)..2
FieldEnds == (-1)..MaxIdx
LengthArgs == (-1)..MaxLength

ObjS == SubcmdObj(TRUE, string_output, "None")
ObjF == SubcmdObj(FALSE, <<>>, outfile)

\* the part of the state of Hex, idle in the behaviours of Subcmd
HexIdle ==
  /\ hpc = "idle"
  /\ value = StrArg(<<>>)
  /\ hex = <<>>
  /\ call = NoCall
  /\ ret = RNone

\* Subcmd.__init__ with outfile False and with outfile True, after
\* run_ipcs_subcmd / run_ipcs_subcmd_outfile produced the same output
SubInit ==
  /\ spc = "ready"
  /\ string_output \in Texts
  /\ outfile = "subcmd.txt"
  /\ fsfile = Encode(string_output)
  /\ fsexists = TRUE
  /\ scall = NoSCall
  /\ sretS = RNone
  /\ sretF = RNone
  /\ HexIdle
  /\ HdrIdle
  /\ AlocIdle
  /\ SessIdle

\* the common shape of a call made on both objects
SubDoes(c, rS, rF) ==
  /\ scall' = c
  /\ sretS' = rS
  /\ sretF' = rF
  /\ spc' = "done"
  /\ UNCHANGED <<string_output, outfile, fsfile, fsexists>>
  /\ UNCHANGED <<hvars, dvars, avars, nvars>>

SubLen ==
  /\ spc = "ready"
  /\ SubDoes(SCall("len", <<>>, <<>>, <<>>, 0, FALSE, 0, FALSE, FALSE),
             Sub_len(ObjS, fsfile), Sub_len(ObjF, fsfile))
SubGetItemInt ==
  /\ spc = "ready"
  /\ \E key \in IdxArgs :
       SubDoes(SCall("getitem", <<>>, <<>>, <<>>, key, TRUE, 0, FALSE, FALSE),
               Sub_getitem_int(ObjS, fsfile, key), Sub_getitem_int(ObjF, fsfile, key))
SubGetItemSlice ==
  /\ spc = "ready"
  /\ \E ag \in BOOLEAN, bg \in BOOLEAN, a \in IdxArgs, b \in IdxArgs :
       /\ ag \/ a = 0
       /\ bg \/ b = 0
       /\ SubDoes(SCall("getslice", <<>>, <<>>, <<>>, a, ag, b, bg, FALSE),
                  Sub_getitem_slice(ObjS, fsfile, ag, a, bg, b),
                  Sub_getitem_slice(ObjF, fsfile, ag, a, bg, b))
SubFindCall(op, reverse) ==
  /\ spc = "ready"
  /\ \E sub \in Needles, start \in IdxArgs, eg \in BOOLEAN, end \in IdxArgs :
       /\ eg \/ end = 0
       /\ SubDoes(SCall(op, sub, <<>>, <<>>, start, TRUE, end, eg, FALSE),
                  Sub_find(ObjS, fsfile, sub, start, eg, end, reverse),
                  Sub_find(ObjF, fsfile, sub, start, eg, end, reverse))
SubFind == SubFindCall("find", FALSE)
SubRFind == SubFindCall("rfind", TRUE)
SubGetField ==
  /\ spc = "ready"
  /\ \E label \in Labels, end_string \in EndStrings, separator \in Separators,
        start \in FieldStarts, eg \in BOOLEAN, end \in FieldEnds, to_hex \in BOOLEAN :
       /\ eg \/ end = 0
       /\ SubDoes(SCall("get_field", label, end_string, separator, start, TRUE, end, eg, to_hex),
                  get_field(ObjS, fsfile, label, end_string, separator, start, eg, end, to_hex),
                  get_field(ObjF, fsfile, label, end_string, separator, start, eg, end, to_hex))

SubRGetField ==
  /\ spc = "ready"
  /\ \E label \in Labels, end_string \in EndStrings, separator \in Separators,
        start \in FieldStarts, eg \in BOOLEAN, end \in FieldEnds, to_hex \in BOOLEAN :
       /\ eg \/ end = 0
       /\ SubDoes(SCall("rget_field", label, end_string, separator, start, TRUE, end, eg, to_hex),
                  rget_field(ObjS, fsfile, label, end_string, separator, start, eg, end, to_hex),
                  rget_field(ObjF, fsfile, label, end_string, separator, start, eg, end, to_hex))
SubGetField2 ==
  /\ spc = "ready"
  /\ \E label \in Labels, length \in LengthArgs, separator \in Separators,
        start \in FieldStarts, eg \in BOOLEAN, end \in FieldEnds, to_hex \in BOOLEAN :
       /\ eg \/ end = 0
       /\ SubDoes(SCall2("get_field2", label, length, separator, start, end, eg, to_hex),
                  get_field2(ObjS, fsfile, label, length, separator, start, eg, end, to_hex),
                  get_field2(ObjF, fsfile, label, length, separator, start, eg, end, to_hex))
SubRGetField2 ==
  /\ spc = "ready"
  /\ \E label \in Labels, length \in LengthArgs, separator \in Separators,
        start \in FieldStarts, eg \in BOOLEAN, end \in FieldEnds, to_hex \in BOOLEAN :
       /\ eg \/ end = 0
       /\ SubDoes(SCall2("rget_field2", label, length, separator, start, end, eg, to_hex),
                  rget_field2(ObjS, fsfile, label, length, separator, start, eg, end, to_hex),
                  rget_field2(ObjF, fsfile, label, length, separator, start, eg, end, to_hex))

\* delete_file() on the file-backed object; the object stays usable for a
\* later call
SubDeleteFile ==
  /\ spc = "ready"
  /\ LET d == delete_file(outfile, fsexists)
     IN  /\ outfile' = d.outfile
         /\ fsexists' = d.exists
         /\ fsfile' = IF d.exists THEN fsfile ELSE <<>>
  /\ scall' = SCall("delete_file", <<>>, <<>>, <<>>, 0, FALSE, 0, FALSE, FALSE)
  /\ UNCHANGED <<spc, string_output, sretS, sretF>>
  /\ UNCHANGED <<hvars, dvars, avars, nvars>>

SubNext ==
  \/ SubLen
  \/ SubGetItemInt
  \/ SubGetItemSlice
  \/ SubFind
  \/ SubRFind
  \/ SubGetField
  \/ SubRGetField
  \/ SubGetField2
  \/ SubRGetField2
  \/ SubDeleteFile

SpecSub == SubInit /\ [][SubNext]_vars

(***************************************************************************)
(* The dump header decoders: dump_header_data (util/zoautil_py_util.py)    *)
(* and DumpHeader (dump/dump_header.py).  A dataset is its record length   *)
(* and its records; a record of a dump is a block of 4160 bytes, given     *)
(* here by the fields the decoders read and zero bytes elsewhere.          *)
(***************************************************************************)
\* dump_lrecl of is_dump, and the hex-digit offset of the second block
dump_lrecl == 4160
SecondBlock == 8320

\* n zero bytes, and text in a field of n bytes padded with blanks, as hex digits
ZeroBytes(n) == [i \in 1..(2 * n) |-> "0"]
TextBytes(text, n) ==
  [i \in 1..(2 * n) |->
     LET k == (i + 1) \div 2
     IN  IbmEncode(IF k <= Len(text) THEN text[k] ELSE " ")[2 - (i % 2)]]

\* the 4160 bytes of a block with the fields b at the offsets of the
\* PRDINPUT mapping the decoders read, as data.hex() gives them
BlockHex(b) ==
  TextBytes(b.sig, 5) \o ZeroBytes(31)
  \o <<"0", b.var>> \o ZeroBytes(27)
  \o TextBytes(b.modnm, 8)
  \o <<"E", "0">> \o ZeroBytes(7) \o ZeroBytes(1)
  \o <<"0", "1", "2", "3", "4", "5">> \o <<"3", "9", "3", "1">> \o ZeroBytes(2)
  \o TextBytes(<<"T">>, 100) \o ZeroBytes(16)
  \o TextBytes(b.sysname, 8) \o ZeroBytes(12)
  \o ZeroBytes(16) \o <<"0", "0", "0", "0", "0", "0", "1", "0">> \o ZeroBytes(16)
  \o TextBytes(b.ver, 2) \o TextBytes(<<"0", "1">>, 2) \o ZeroBytes(180)
  \o TextBytes(<<"D", ".", "S">>, 44) \o ZeroBytes(12)
  \o <<"0", "0", "0", "1", "0", "0", "0", "2", "0", "0", "0", "3">>
  \o <<"0", "0", "0", "4", "0", "0", "0", "0", "0", "0", "0", "5">> \o ZeroBytes(588)
  \o TextBytes(<<"J", "O", "B">>, 8) \o ZeroBytes(536)
  \o TextBytes(b.remote, 8) \o ZeroBytes(2508)

\* read_hex(dsname, count=count): the Hex of the first `count` records
RECURSIVE RecordsHex(_, _)
RecordsHex(records, count) ==
  IF count = 0 \/ records = <<>> THEN <<>>
  ELSE BlockHex(Head(records)) \o RecordsHex(Tail(records), count - 1)
read_hex(ds, count) == HexOfStr(RecordsHex(ds.records, count)).val

\* is_dump
is_dump(ds) ==
  /\ ds.lrecl = dump_lrecl
  /\ ds.block_size % ds.lrecl = 0
  /\ StartsWith(to_char_str(read_hex(ds, 1), "ibm1047"), <<"D", "R", "2">>)

\* int(text) on a string of decimal digits, blanks and characters that are
\* neither: the value, or -1 for ValueError
DecimalDigits == <<"0", "1", "2", "3", "4", "5", "6", "7", "8", "9">>
RECURSIVE DecimalToInt(_)
DecimalToInt(d) ==
  IF d = <<>> THEN 0
  ELSE 10 * DecimalToInt(SubSeq(d, 1, Len(d) - 1)) + DigitVal(d[Len(d)])
PyInt(text) ==
  LET t == PyStrip(text)
  IN  IF t = <<>> \/ \E i \in 1..Len(t) : t[i] \notin Range(DecimalDigits) THEN -1
      ELSE DecimalToInt(t)

\* the keys of header_data that are set whatever the dump type, and those
\* set unless dump_type is "SAD"
AlwaysKeys ==
  {"sysname", "date_local", "time_local", "title", "original_dump_dsn", "version",
   "release", "sdrsn", "complete_dump", "processor_serial_number",
   "processor_model_number"}
NotSadKeys ==
  {"home_jobname", "primary", "secondary", "home", "sdwa_asid", "sdwa_address",
   "blocks_allocated_decimal", "remote_dump"}

\* the keys set for a dump of any type
ConditionalKeysAlways(dump_type, remote_sysname) ==
  NotSadKeys \cup (IF remote_sysname # <<>> THEN {"remote_sysname"} ELSE {})

\* the keys set under `if header_data["dump_type"] != "SAD"`; remote_sysname
\* is deleted again when it is empty
ConditionalKeys(dump_type, remote_sysname) ==
  IF dump_type # <<"S", "A", "D">>
  THEN NotSadKeys \cup (IF remote_sysname # <<>> THEN {"remote_sysname"} ELSE {})
  ELSE {}

\* header_data["remote_dump"]
remote_dump(remote_sysname, sysname) == remote_sysname # sysname

\* the decoding of the fields of a header block, common to dump_header_data
\* and DumpHeader.__init__
decode_fields(hex_header) ==
  LET char_header == to_char_str(hex_header, "ibm1047")
      H(a, b) == getitem_slice(hex_header, TRUE, a, TRUE, b).val
      C(a, b) == PySlice(char_header, TRUE, a, TRUE, b)
      dump_type_hex == H(72, 74)
      Is(digits) == Hex_eq(dump_type_hex, digits) = RBool(TRUE)
      prdmodnm == PyUpper(C(64, 72))
      typed == Is(<<"0", "1">>) \/ Is(<<"0", "2">>) \/ Is(<<"0", "3">>) \/ Is(<<"0", "4">>)
      dump_type ==
        IF Is(<<"0", "1">>) THEN <<"S", "A", "D">>
        ELSE IF Is(<<"0", "2">>) THEN <<"S", "V", "C", "D">>
        ELSE IF Is(<<"0", "3">>)
             THEN IF prdmodnm = <<"I", "E", "A", "V", "T", "D", "M", "P">>
                  THEN <<"T", "D", "M", "P">> ELSE <<"S", "Y", "S", "M">>
        ELSE IF Is(<<"0", "4">>) THEN <<"S", "L", "I", "P">>
        ELSE <<>>
      sysname == RStrip(C(204, 212))
      stck_truncated == getitem_slice(H(144, 160), TRUE, 0, TRUE, 13).val
      version == PyInt(C(260, 262))
      release == PyInt(C(262, 264))
      blocks == H(480, 488)
      remote_sysname == RStrip(C(1644, 1652))
  IN  IF ~IntOk(dump_type_hex) THEN HRaise("ValueError")
      ELSE IF ~IntOk(stck_truncated) THEN HRaise("ValueError")
      ELSE IF version = -1 \/ release = -1 THEN HRaise("ValueError")
      ELSE IF ~typed THEN HRaise("KeyError")
      ELSE IF dump_type # <<"S", "A", "D">> /\ ~IntOk(blocks) THEN HRaise("ValueError")
      ELSE HRecord(
             [keys |-> {"dump_type"} \cup AlwaysKeys
                         \cup ConditionalKeys(dump_type, remote_sysname),
              dump_type |-> dump_type,
              sysname |-> sysname,
              version |-> version,
              blocks_allocated_decimal |->
                IF dump_type # <<"S", "A", "D">> THEN to_int(blocks) ELSE 0,
              remote_sysname |->
                IF dump_type # <<"S", "A", "D">> THEN remote_sysname ELSE <<>>,
              remote_dump |->
                dump_type # <<"S", "A", "D">> /\ remote_dump(remote_sysname, sysname)])

\* the DR2 H signature check of dump_header_data
HasSignature(hex_header) ==
  Hex_eq(getitem_slice(hex_header, TRUE, 0, TRUE, 10).val,
         <<"C", "4", "D", "9", "F", "2", "4", "0", "C", "8">>)

\* dump_header_data
dump_header_data(ds) ==
  LET first == read_hex(ds, 2)
      sig1 == HasSignature(first)
      hex_header == IF sig1 = RBool(TRUE) THEN first
                    ELSE getitem_slice(first, TRUE, SecondBlock, FALSE, 0).val
      sig2 == HasSignature(hex_header)
  IN  IF ~is_dump(ds) THEN HRaise("ValueError: not a dump")
      ELSE IF sig1.kind = "raise" THEN HRaise(sig1.err)
      ELSE IF sig2.kind = "raise" THEN HRaise(sig2.err)
      ELSE IF sig2 # RBool(TRUE) THEN HRaise("RuntimeError: no dr2 h")
      ELSE decode_fields(hex_header)

\* DumpHeader.__init__
DumpHeader_init(ds) ==
  IF ~is_dump(ds) THEN HRaise("ValueError: not a dump")
  ELSE decode_fields(read_hex(ds, 2))

(***************************************************************************)
(* The header decoders: a dataset is chosen, then one decoder reads it.    *)
(***************************************************************************)
HdrText(s) ==
  CASE s = "DR2 H" -> <<"D", "R", "2", " ", "H">>
    [] s = "DR2 X" -> <<"D", "R", "2", " ", "X">>
    [] s = "XXXXX" -> <<"X", "X", "X", "X", "X">>
    [] s = "IEAVTDMP" -> <<"I", "E", "A", "V", "T", "D", "M", "P">>
    [] s = "IEAVAD00" -> <<"I", "E", "A", "V", "A", "D", "0", "0">>
    [] s = "S1" -> <<"S", "1">>
    [] s = "S2" -> <<"S", "2">>
    [] s = "03" -> <<"0", "3">>
    [] s = "  " -> <<" ", " ">>
    [] s = "" -> <<>>

\* the first and the second record of the datasets explored
FirstBlocks ==
  {[sig |-> HdrText(sig), var |-> var, modnm |-> HdrText(modnm),
    sysname |-> HdrText(sysname), remote |-> HdrText(remote), ver |-> HdrText(ver)] :
     sig \in {"DR2 H", "DR2 X", "XXXXX"}, var \in {"1", "2", "3", "4", "5"},
     modnm \in {"IEAVTDMP", "IEAVAD00"}, sysname \in {"", "S1"},
     remote \in {"", "S1", "S2"}, ver \in {"03", "  "}}
SecondBlocks ==
  {[sig |-> HdrText(sig), var |-> "2", modnm |-> HdrText("IEAVTDMP"),
    sysname |-> HdrText("S2"), remote |-> HdrText(""), ver |-> HdrText("03")] :
     sig \in {"DR2 H", "DR2 X"}}

\* datasets of the record length of a dump with no, one or two records, and a
\* dataset of another record length
Datasets ==
  {[lrecl |-> dump_lrecl, block_size |-> dump_lrecl, records |-> <<>>]}
  \cup {[lrecl |-> dump_lrecl, block_size |-> dump_lrecl, records |-> <<b1>>] :
          b1 \in FirstBlocks}
  \cup {[lrecl |-> dump_lrecl, block_size |-> dump_lrecl, records |-> <<b1, b2>>] :
          b1 \in FirstBlocks, b2 \in SecondBlocks}
  \cup {[lrecl |-> 80, block_size |-> 80, records |-> <<>>],
        [lrecl |-> dump_lrecl, block_size |-> dump_lrecl + 80, records |-> <<>>]}

HdrInit ==
  /\ dpc = "ready"
  /\ dataset \in Datasets
  /\ dcall = "none"
  /\ dret = HNone
  /\ hpc = "idle"
  /\ value = StrArg(<<>>)
  /\ hex = <<>>
  /\ call = NoCall
  /\ ret = RNone
  /\ SubIdle
  /\ AlocIdle
  /\ SessIdle

HdrDoes(op, r) ==
  /\ dcall' = op
  /\ dret' = r
  /\ dpc' = "done"
  /\ UNCHANGED dataset
  /\ UNCHANGED <<hvars, svars, avars, nvars>>

HdrDumpHeaderData ==
  /\ dpc = "ready"
  /\ HdrDoes("dump_header_data", dump_header_data(dataset))
HdrDumpHeader ==
  /\ dpc = "ready"
  /\ HdrDoes("DumpHeader", DumpHeader_init(dataset))

HdrNext ==
  \/ HdrDumpHeaderData
  \/ HdrDumpHeader

SpecHdr == HdrInit /\ [][HdrNext]_vars

(***************************************************************************)
(* IpcsAllocations (session/allocations.py).  A specification is a str or  *)
(* a list; a list element carries its Python type, so that the check of    *)
(* set on the elements has something to reject.  The dictionary            *)
(* _allocations is a function on DDNames that maps the DD names it does    *)
(* not hold to Absent.                                                     *)
(***************************************************************************)
DDNames == {"DD1", "SYSEXEC"}

Absent == [t |-> "absent", s |-> "", l |-> <<>>]
StrSpec(s) == [t |-> "str", s |-> s, l |-> <<>>]
ListSpec(l) == [t |-> "list", s |-> "", l |-> l]
IntSpec == [t |-> "int", s |-> "", l |-> <<>>]
StrElem(v) == [t |-> "str", v |-> v]
IntElem == [t |-> "int", v |-> "1"]

EmptyDict == [d \in DDNames |-> Absent]

\* dict(new_allocations): the entries of new_allocations in their order
AsDict(new) ==
  [d \in DDNames |->
     IF \E i \in 1..Len(new) : new[i][1] = d
     THEN new[CHOOSE i \in 1..Len(new) : new[i][1] = d][2]
     ELSE Absent]

AOk(a) == [alloc |-> a, err |-> "ok"]
ARaise(a, e) == [alloc |-> a, err |-> e]

\* IpcsAllocations.get
get(a) == a

\* IpcsAllocations.set, replacing the specification whatever extend is
set_ignores_extend(a, dd_name, specification, extend) ==
  IF specification.t \notin {"list", "str"}
  THEN ARaise(a, "ArgumentTypeError")
  ELSE IF specification.t = "list"
          /\ \E i \in 1..Len(specification.l) : specification.l[i].t # "str"
  THEN ARaise(a, "TypeError")
  ELSE IF dd_name = "SYSEXEC" /\ specification.t # "list"
  THEN ARaise(a, "TypeError")
  ELSE AOk([a EXCEPT ![dd_name] = specification])

\* IpcsAllocations.set
set(a, dd_name, specification, extend) ==
  IF specification.t \notin {"list", "str"}
  THEN ARaise(a, "ArgumentTypeError")
  ELSE IF specification.t = "list"
          /\ \E i \in 1..Len(specification.l) : specification.l[i].t # "str"
  THEN ARaise(a, "TypeError")
  ELSE IF dd_name = "SYSEXEC" /\ specification.t # "list"
  THEN ARaise(a, "TypeError")
  ELSE IF extend /\ a[dd_name] # Absent
  THEN IF a[dd_name].t # "list"
       THEN ARaise(a, "TypeError")
       ELSE IF specification.t # "list"
       THEN ARaise(a, "TypeError")
       ELSE AOk([a EXCEPT ![dd_name] = ListSpec(@.l \o specification.l)])
  ELSE AOk([a EXCEPT ![dd_name] = specification])

\* IpcsAllocations.drop
drop(a, dd_name) ==
  IF a[dd_name] # Absent THEN AOk([a EXCEPT ![dd_name] = Absent]) ELSE AOk(a)

\* IpcsAllocations.clear
clear(a) == AOk(EmptyDict)

\* the loop of IpcsAllocations.update over new_allocations.items(), from
\* entry i on: the first set that raises ends it
RECURSIVE update_items(_, _, _, _)
update_items(a, new, i, extend) ==
  IF i > Len(new)
  THEN AOk(a)
  ELSE LET r == set(a, new[i][1], new[i][2], extend)
       IN  IF r.err # "ok" THEN r ELSE update_items(r.alloc, new, i + 1, extend)

\* IpcsAllocations.update
update(a, new_allocations, clear_arg, extend) ==
  update_items(IF clear_arg THEN clear(a).alloc ELSE a, new_allocations, 1, extend)

\* IpcsAllocations.__init__
IpcsAllocations_init(init_allocations) ==
  update(EmptyDict, init_allocations, TRUE, FALSE)

\* the arguments of the calls
DsNames == {"A", "B"}
SpecArgs ==
  {StrSpec("T"), IntSpec, ListSpec(<<>>), ListSpec(<<StrElem("A"), IntElem>>)}
    \cup {ListSpec(<<StrElem(n)>>) : n \in DsNames}
UpdateSpecArgs ==
  {StrSpec("T"), ListSpec(<<StrElem("B")>>), ListSpec(<<StrElem("A"), IntElem>>)}
NewAllocations ==
  {<<>>}
    \cup {<<<<d, s>>>> : d \in DDNames, s \in UpdateSpecArgs}
    \cup UNION {{<<<<d, s>>, <<e, t>>>> :
                   e \in DDNames \ {d}, s \in UpdateSpecArgs, t \in UpdateSpecArgs} :
                 d \in DDNames}
InitAllocations == {<<>>, <<<<"SYSEXEC", ListSpec(<<StrElem("A")>>)>>>>}

ACall(op, dd_name, specification, new, clear_arg, extend) ==
  [op |-> op, dd_name |-> dd_name, specification |-> specification,
   new_allocations |-> new, clear |-> clear_arg, extend |-> extend]
NoACall == ACall("none", "", Absent, <<>>, FALSE, FALSE)

\* no list of the dictionary is longer than MaxList
Bounded(a) == \A d \in DDNames : Len(a[d].l) <= MaxList

AlocInit ==
  /\ \E init \in InitAllocations : allocations = IpcsAllocations_init(init).alloc
  /\ before = EmptyDict
  /\ acall = NoACall
  /\ aret = "none"
  /\ HexIdle
  /\ SubIdle
  /\ HdrIdle
  /\ SessIdle

AlocDoes(c, r) ==
  /\ Bounded(r.alloc)
  /\ before' = allocations
  /\ allocations' = r.alloc
  /\ acall' = c
  /\ aret' = r.err
  /\ UNCHANGED <<hvars, svars, dvars, nvars>>

AlocSet ==
  \E d \in DDNames, s \in SpecArgs, x \in BOOLEAN :
    AlocDoes(ACall("set", d, s, <<>>, FALSE, x), set(allocations, d, s, x))

AlocDrop ==
  \E d \in DDNames :
    AlocDoes(ACall("drop", d, Absent, <<>>, FALSE, FALSE), drop(allocations, d))

AlocUpdate ==
  \E new \in NewAllocations, c \in BOOLEAN, x \in BOOLEAN :
    AlocDoes(ACall("update", "", Absent, new, c, x), update(allocations, new, c, x))

AlocClear ==
  AlocDoes(ACall("clear", "", Absent, <<>>, FALSE, FALSE), clear(allocations))

AlocNext ==
  \/ AlocSet
  \/ AlocDrop
  \/ AlocUpdate
  \/ AlocClear

SpecAloc == AlocInit /\ [][AlocNext]_vars

(***************************************************************************)
(* IpcsSession.open and IpcsSession.close (session/session.py).  zos is    *)
(* the catalog of the system: the datasets and members that exist, each    *)
(* with its content.  The datasets of a session are named after its        *)
(* session id.  Whether a write or the creation of the dump directory      *)
(* fails, and how TSO answers the execution of a missing member, is the    *)
(* system's choice at each call.                                           *)
(***************************************************************************)
SessionIds == {"00001", "00002"}
Times == {"T1", "T2"}

Dataset(id, name, content) == [id |-> id, name |-> name, content |-> content]
Exists(z, id, name) == \E ds \in z : ds.id = id /\ ds.name = name
Delete(z, id, names) == {ds \in z : ~(ds.id = id /\ ds.name \in names)}
\* datasets.write(dsname, content): the dataset is replaced
Write(z, id, name, content) == Delete(z, id, {name}) \cup {Dataset(id, name, content)}
Content(z, id, name) == (CHOOSE ds \in z : ds.id = id /\ ds.name = name).content

\* the state of the object and of the system, and the outcome of a call
Sess(id, t, d, z) == [session_id |-> id, time_opened |-> t, ddir |-> d, zos |-> z]
Returned(s, warning) == [s |-> s, kind |-> "return", err |-> "", warning |-> warning]
Raised(s, err) == [s |-> s, kind |-> "raise", err |-> err, warning |-> ""]

\* IpcsSession.active: "True", "False" or the error raised.  rc0 tells
\* whether TSO ends the execution of a missing IPACTIVE with return code 0
active(s, rc0) ==
  IF s.session_id = "None" /\ s.time_opened = "None" THEN "False"
  ELSE IF s.session_id = "None" THEN "RuntimeError"
  ELSE IF s.time_opened = "None" THEN "RuntimeError"
  ELSE IF ~Exists(s.zos, s.session_id, "IPCSEXEC(IPACTIVE)")
  THEN IF rc0 THEN "RuntimeError" ELSE "CalledTsoProcessError"
  ELSE IF Content(s.zos, s.session_id, "IPCSEXEC(IPACTIVE)") = <<s.time_opened>>
  THEN "True"
  ELSE "RuntimeError"

\* IpcsSession.create_ddir
create_ddir(s, name, fail) ==
  IF fail = "create_ddir"
  THEN Raised(s, "CalledTsoProcessError")
  ELSE Returned([s EXCEPT !.zos = Write(@, s.session_id, name, <<>>)], "")

\* IpcsSession._delete_ddir
delete_ddir(s, name) ==
  IF Exists(s.zos, s.session_id, name)
  THEN [s EXCEPT !.zos = Delete(@, s.session_id, {name})]
  ELSE s

\* the datasets.write calls of __create_session_datasets, in their order
SessionDatasets ==
  <<"SESSION", "IPCSEXEC(IPACTIVE)", "IPCSEXEC(IPCSRUN)", "SYSEXEC(IPCSEVAL)">>
SessionContent(s, init_ddir, name) ==
  CASE name = "SESSION" -> <<init_ddir>>
    [] name = "IPCSEXEC(IPACTIVE)" -> <<s.time_opened>>
    [] OTHER -> <<>>

\* write i of __create_session_datasets and the ones after it; write
\* number `fail` raises DatasetWriteException
RECURSIVE write_session_datasets(_, _, _, _)
write_session_datasets(s, init_ddir, i, fail) ==
  IF i > Len(SessionDatasets) THEN Returned(s, "")
  ELSE IF fail = SessionDatasets[i] THEN Raised(s, "DatasetWriteException")
  ELSE write_session_datasets(
         [s EXCEPT !.zos = Write(@, s.session_id, SessionDatasets[i],
                                 SessionContent(s, init_ddir, SessionDatasets[i]))],
         init_ddir, i + 1, fail)

\* IpcsSession.__create_session_datasets: a DatasetWriteException is caught
\* and RuntimeError raised from it
create_session_datasets(s, init_ddir, fail) ==
  LET r == write_session_datasets(s, init_ddir, 1, fail)
  IN  IF r.kind = "raise" /\ r.err = "DatasetWriteException"
      THEN Raised(r.s, "RuntimeError")
      ELSE r

\* IpcsSession.set_ddir
set_ddir(s, name, rc0) ==
  LET a == active(s, rc0)
  IN  IF a = "False" THEN Raised(s, "SessionNotActiveError")
      ELSE IF a # "True" THEN Raised(s, a)
      ELSE IF s.ddir = name THEN Returned(s, "")
      ELSE IF ~Exists(s.zos, s.session_id, name) THEN Raised(s, "ValueError")
      ELSE Returned([s EXCEPT !.ddir = name], "")

\* IpcsSession.open from the generation of the session id on, with the
\* except clause of open catching only DatasetWriteException
open_session(s, id, t, fail, rc0) ==
  LET s1 == [s EXCEPT !.session_id = id, !.time_opened = t]
      init_ddir == "INIT.DDIR"
      c == create_ddir(s1, init_ddir, fail)
      w == create_session_datasets(c.s, init_ddir, fail)
  IN  IF c.kind = "raise" THEN c
      ELSE IF w.kind = "raise" /\ w.err = "DatasetWriteException"
      THEN set_ddir(delete_ddir(w.s, init_ddir), init_ddir, rc0)
      ELSE IF w.kind = "raise" THEN w
      ELSE set_ddir(w.s, init_ddir, rc0)

\* IpcsSession.open
open(s, id, t, fail, rc0) ==
  LET a == active(s, rc0)
  IN  IF a = "True" THEN Returned(s, "already active")
      ELSE IF a # "False" THEN Raised(s, a)
      ELSE open_session(s, id, t, fail, rc0)

\* IpcsSession.__delete_session_datasets: the dump directories listed in the
\* main session dataset, then the three session datasets; a dataset that is
\* missing gives a warning
delete_session_datasets(s) ==
  LET id == s.session_id
      ddirs == IF Exists(s.zos, id, "SESSION")
               THEN Range(Content(s.zos, id, "SESSION"))
               ELSE {}
      missing ==
        \/ ~Exists(s.zos, id, "SESSION")
        \/ \E n \in ddirs : ~Exists(s.zos, id, n)
        \/ ~Exists(s.zos, id, "IPCSEXEC(IPACTIVE)") /\ ~Exists(s.zos, id, "IPCSEXEC(IPCSRUN)")
        \/ ~Exists(s.zos, id, "SYSEXEC(IPCSEVAL)")
  IN  Returned([s EXCEPT !.zos = Delete(@, id, ddirs \cup Range(SessionDatasets))],
               IF missing THEN "corruption" ELSE "")

\* IpcsSession.close, leaving ddir as it is
close_keeps_ddir(s, rc0) ==
  LET a == active(s, rc0)
      r == delete_session_datasets(s)
  IN  IF a = "False" THEN Returned(s, "already closed")
      ELSE IF a # "True" THEN Raised(s, a)
      ELSE Returned([r.s EXCEPT !.time_opened = "None", !.session_id = "None"],
                    r.warning)

\* IpcsSession.close
close(s, rc0) ==
  LET a == active(s, rc0)
      r == delete_session_datasets(s)
  IN  IF a = "False" THEN Returned(s, "already closed")
      ELSE IF a # "True" THEN Raised(s, a)
      ELSE Returned([r.s EXCEPT !.ddir = "None", !.time_opened = "None",
                                !.session_id = "None"],
                    r.warning)

\* what the system lets fail in a call of open
Failures == {"none", "create_ddir"} \cup Range(SessionDatasets)

NCall(op, id, t, fail, rc0, was) ==
  [op |-> op, id |-> id, t |-> t, fail |-> fail, rc0 |-> rc0, active |-> was]
NoNCall == NCall("none", "None", "None", "none", FALSE, "False")
NoNRet == [kind |-> "none", err |-> "", warning |-> ""]

Session == Sess(session_id, time_opened, ddir, zos)

\* IpcsSession.__init__
SessInit ==
  /\ session_id = "None"
  /\ time_opened = "None"
  /\ ddir = "None"
  /\ zos = {}
  /\ ncall = NoNCall
  /\ nret = NoNRet
  /\ HexIdle
  /\ SubIdle
  /\ HdrIdle
  /\ AlocIdle

SessDoes(c, r) ==
  /\ session_id' = r.s.session_id
  /\ time_opened' = r.s.time_opened
  /\ ddir' = r.s.ddir
  /\ zos' = r.s.zos
  /\ ncall' = c
  /\ nret' = [kind |-> r.kind, err |-> r.err, warning |-> r.warning]
  /\ UNCHANGED <<hvars, svars, dvars, avars>>

\* the while loop of open draws session ids until the main session dataset
\* of the id does not exist
SessOpen ==
  \E id \in SessionIds, t \in Times, fail \in Failures, rc0 \in BOOLEAN :
    /\ active(Session, rc0) = "False" => ~Exists(zos, id, "SESSION")
    /\ SessDoes(NCall("open", id, t, fail, rc0, active(Session, rc0)),
                open(Session, id, t, fail, rc0))

SessClose ==
  \E rc0 \in BOOLEAN :
    SessDoes(NCall("close", "None", "None", "none", rc0, active(Session, rc0)),
             close(Session, rc0))

SessNext ==
  \/ SessOpen
  \/ SessClose

SpecSess == SessInit /\ [][SessNext]_vars

(***************************************************************************)
(* Properties of Hex.                                                      *)
(***************************************************************************)
Digits(v) == RemovePrefix(v, <<"-">>)
Negative(v) == StartsWith(v, <<"-">>)
Constructed == hpc \in {"ready", "done"}
Called(op) == hpc = "done" /\ call.op = op

\* a non-empty string of the characters 0-9 and A-F
ValidDigits(d) == d # <<>> /\ \A i \in 1..Len(d) : d[i] \in Range(HexChars)

\* C3: every Hex value that can exist, constructed or returned by an
\* operation, has a non-empty digit string made only of 0-9 and A-F.
C3_DigitsValid ==
  /\ Constructed => ValidDigits(Digits(hex))
  /\ ret.kind = "Hex" => ValidDigits(Digits(ret.val))

\* an optional leading "-", then one or more hex digits in either case
ValidHexString(s) ==
  LET d == IF s # <<>> /\ s[1] = "-" THEN Tail(s) ELSE s
  IN  d # <<>> /\ \A i \in 1..Len(d) : d[i] \in Range(HexChars) \cup Range(LowerHexChars)

\* the upper-case form of a hex string
UpperOf(s) ==
  [i \in 1..Len(s) |->
     IF s[i] \in Range(LowerHexChars)
     THEN HexChars[CHOOSE k \in 1..16 : LowerHexChars[k] = s[i]]
     ELSE s[i]]
AllZero(s) == \A i \in 1..Len(s) : s[i] \in {"0", "-"}

\* C4 as stated: for every valid hex string s, Hex(s).to_str() == s.
C4_RoundTrip ==
  (Called("to_str") /\ value.t = "str" /\ ValidHexString(value.s)) =>
    ret = RStr(value.s)

\* C4 as amended: Hex(s).to_str() is s in upper case, without the leading
\* "-" when every digit of s is 0; leading zeros are kept.
C4_RoundTripUpper ==
  (Called("to_str") /\ value.t = "str" /\ ValidHexString(value.s)) =>
    ret = RStr(IF AllZero(value.s) THEN UpperOf(Digits(value.s)) ELSE UpperOf(value.s))

C4_Witness ==
  /\ Called("to_str")
  /\ value.t = "str"
  /\ ValidHexString(value.s)
  /\ Len(value.s) = 3
  /\ value.s[1] = "-"
  /\ value.s[2] = "0"
  /\ value.s[3] = "a"

ArithOps == {"add", "sub", "mul", "truediv", "mod"}
BinOps == ArithOps \cup {"or", "and"}

\* q is the floor of a / b
IsFloorQuotient(a, b, q) ==
  IF b > 0 THEN q * b <= a /\ a < (q + 1) * b
  ELSE q * b >= a /\ a > (q + 1) * b

\* r is the remainder of the floor division of a by b
IsFloorRemainder(a, b, r) ==
  /\ IF b > 0 THEN 0 <= r /\ r < b ELSE b < r /\ r <= 0
  /\ (a - r) % (IF b > 0 THEN b ELSE -b) = 0

\* C5: the operators + - * give the integer sum, difference and product
\* of the operands' to_int(); / gives the floor of the quotient and % the
\* remainder of the floor division, and both raise ZeroDivisionError on a
\* zero divisor.  (Operands on which to_int() returns.)
C5_Arithmetic ==
  (hpc = "done" /\ call.op \in ArithOps /\ IntOk(hex) /\ IntOk(call.other)) =>
    LET a == to_int(hex)
        b == to_int(call.other)
        c == to_int(ret.val)
    IN  /\ call.op = "add" => ret.kind = "Hex" /\ c = a + b
        /\ call.op = "sub" => ret.kind = "Hex" /\ c = a - b
        /\ call.op = "mul" => ret.kind = "Hex" /\ c = a * b
        /\ (call.op \in {"truediv", "mod"} /\ b = 0) => ret = Raise("ZeroDivisionError")
        /\ (call.op = "truediv" /\ b # 0) => ret.kind = "Hex" /\ IsFloorQuotient(a, b, c)
        /\ (call.op = "mod" /\ b # 0) => ret.kind = "Hex" /\ IsFloorRemainder(a, b, c)

C5_Witness ==
  /\ Called("truediv")
  /\ IntOk(hex)
  /\ IntOk(call.other)
  /\ to_int(hex) < 0
  /\ to_int(call.other) > 1
  /\ ret.kind = "Hex"
  /\ to_int(ret.val) * to_int(call.other) # to_int(hex)

\* the bits of the shortest hex form of the integer n
MinHexWidth(n) ==
  LET m == IF n < 0 THEN -n ELSE n
  IN  4 * (CHOOSE d \in 1..7 : m < Pow2(4 * d) /\ (d > 1 => m >= Pow2(4 * (d - 1))))

\* C6: the result of + - * / % | & has the bit length of the left operand,
\* unless the shortest hex form of the integer result has that many bits
\* or more, and then it has the bits of that shortest form.
C6_WidthOfLeft ==
  (hpc = "done" /\ call.op \in BinOps /\ ret.kind = "Hex") =>
    bit_len(ret.val) = Max(bit_len(hex), MinHexWidth(to_int(ret.val)))

C6_Witness ==
  /\ Called("sub")
  /\ ret.kind = "Hex"
  /\ to_int(ret.val) < 0
  /\ MinHexWidth(to_int(ret.val)) < bit_len(hex)
  /\ bit_len(ret.val) = bit_len(hex)

\* ceil(n / 4)
CeilDiv4(n) == (n + 3) \div 4

\* C7 as stated: resize(n) for n >= 0 has magnitude (magnitude of v) mod
\* 2^n, ceil(n/4) digits and the sign of v; for n < 0 it raises.
C7_Resize ==
  Called("resize") =>
    IF call.n < 0 THEN ret.kind = "raise"
    ELSE /\ ret.kind = "Hex"
         /\ DigitsToInt(Digits(ret.val)) = DigitsToInt(Digits(hex)) % Pow2(call.n)
         /\ Len(Digits(ret.val)) = CeilDiv4(call.n)
         /\ Negative(ret.val) = Negative(hex)

\* C7 as amended: for a v with at least one digit and n >= 0, resize(n) has
\* magnitude (magnitude of v) mod 2^n and max(1, ceil(n/4)) digits, and has
\* the sign of v unless that magnitude is 0, when it is unsigned; for
\* n < 0, and for a v without digits, it raises ValueError.
C7_ResizeAmended ==
  Called("resize") =>
    IF call.n < 0 \/ Digits(hex) = <<>> THEN ret = Raise("ValueError")
    ELSE /\ ret.kind = "Hex"
         /\ DigitsToInt(Digits(ret.val)) = DigitsToInt(Digits(hex)) % Pow2(call.n)
         /\ Len(Digits(ret.val)) = Max(1, CeilDiv4(call.n))
         /\ Negative(ret.val) = (Negative(hex) /\ DigitsToInt(Digits(ret.val)) # 0)

C7_Witness ==
  /\ Called("resize")
  /\ Negative(hex)
  /\ call.n > 0
  /\ call.n < BitLength(DigitsToInt(Digits(hex)))
  /\ ret.kind = "Hex"
  /\ Negative(ret.val)
  /\ DigitsToInt(Digits(ret.val)) # DigitsToInt(Digits(hex))

\* the digits of a chunk for each get method
ChunkSize(op) ==
  CASE op = "get_nibble" -> 1
    [] op = "get_byte" -> 2
    [] op = "get_half_word" -> 4
    [] op = "get_word" -> 8
    [] op = "get_doubleword" -> 16
GetOps == {"get_nibble", "get_byte", "get_half_word", "get_word", "get_doubleword"}

\* C8: the get methods raise the out-of-bounds error whenever index < 0 or
\* the window [start, start + chunk_size) is not wholly inside the unsigned
\* digit string, and otherwise return exactly the digits of that window.
C8_ChunkBounds ==
  (hpc = "done" /\ call.op \in GetOps) =>
    LET size == ChunkSize(call.op)
        u == Digits(hex)
        start == IF call.fr THEN Len(u) - size - call.n * size ELSE call.n * size
        inside == call.n >= 0 /\ 0 <= start /\ start + size <= Len(u)
    IN  IF inside THEN ret = RHex(SubSeq(u, start + 1, start + size))
        ELSE ret = Raise("ValueError")

\* a == b of two outcomes that are Hex objects
SameHex(r1, r2) ==
  r1.kind = "Hex" /\ r2.kind = "Hex" /\ Hex_eq(r1.val, r2.val) = RBool(TRUE)

\* C9 as stated: for every index i with 0 <= i < n, n the byte count of v,
\* get_byte(i) == get_byte(n-1-i, from_right=True).
C9_ByteDuality ==
  LET n == (Len(Digits(hex)) + 1) \div 2
  IN  (Called("get_byte") /\ ~call.fr /\ 0 <= call.n /\ call.n < n) =>
        SameHex(ret, get_byte(hex, n - 1 - call.n, TRUE))

\* C9 as amended: the same for every v with an even number of digits,
\* n being half that number.
C9_ByteDualityEven ==
  LET n == Len(Digits(hex)) \div 2
  IN  (Called("get_byte") /\ ~call.fr /\ Len(Digits(hex)) % 2 = 0
         /\ 0 <= call.n /\ call.n < n) =>
        SameHex(ret, get_byte(hex, n - 1 - call.n, TRUE))

C9_Witness ==
  /\ Called("get_byte")
  /\ ~call.fr
  /\ Len(Digits(hex)) = 8
  /\ call.n = 1
  /\ ret = RHex(<<"3", "4">>)

\* C10: for every position p with 0 <= p < bit_len() and either from_right,
\* turn_on_bit(p, from_right).check_bit(p, from_right) is True and
\* turn_off_bit(p, from_right).check_bit(p, from_right) is False.
C10_BitSymmetry ==
  (hpc = "done" /\ call.op \in {"turn_on_bit", "turn_off_bit"}
     /\ 0 <= call.n /\ call.n < bit_len(hex)) =>
    /\ ret.kind = "Hex"
    /\ check_bit(ret.val, call.n, call.fr) = RBool(call.op = "turn_on_bit")

C10_Witness ==
  /\ Called("turn_off_bit")
  /\ call.fr
  /\ Negative(hex)
  /\ 0 <= call.n
  /\ call.n < bit_len(hex)
  /\ check_bit(hex, call.n, call.fr) = RBool(TRUE)
  /\ ret.kind = "Hex"
  /\ Len(Digits(hex)) > 1

\* bit q, counted from the left, of a digit string
BitOf(d, q) == PyAnd(DigitVal(d[(q \div 4) + 1]), Pow2(3 - (q % 4))) # 0

\* the digits of r are those of v with every bit other than bit p unchanged
OtherBitsKept(v, r, p) ==
  /\ Len(Digits(r)) = Len(Digits(v))
  /\ \A q \in 0..(4 * Len(Digits(v)) - 1) :
       q # p => BitOf(Digits(r), q) = BitOf(Digits(v), q)

\* a call of turn_on_bit or turn_off_bit, and whether its position is in range
BitCall == hpc = "done" /\ call.op \in {"turn_on_bit", "turn_off_bit"}
BitInRange == 0 <= call.n /\ call.n < bit_len(hex)

\* C11: turn_on_bit(p) and turn_off_bit(p) return a value with the same sign
\* and the same number of digits as the receiver in which every bit other
\* than bit p is unchanged; a position outside 0 <= p < bit_len() is
\* rejected with an error.
C11_BitFrame ==
  BitCall =>
    IF BitInRange
    THEN /\ ret.kind = "Hex"
         /\ Negative(ret.val) = Negative(hex)
         /\ OtherBitsKept(hex, ret.val, BitPos(hex, call.n, call.fr))
    ELSE ret.kind = "raise"

\* C11 as the code has it: the sign is that of the receiver unless every
\* digit of the result is 0, and then the result is unsigned
C11_BitFrameZeroUnsigned ==
  BitCall =>
    IF BitInRange
    THEN /\ ret.kind = "Hex"
         /\ Negative(ret.val) = (Negative(hex) /\ ~AllZero(Digits(ret.val)))
         /\ OtherBitsKept(hex, ret.val, BitPos(hex, call.n, call.fr))
    ELSE ret.kind = "raise"

C11_Witness ==
  /\ Called("turn_off_bit")
  /\ BitInRange
  /\ Negative(hex)
  /\ Len(Digits(hex)) = 2
  /\ check_bit(hex, call.n, call.fr) = RBool(TRUE)
  /\ ret.kind = "Hex"
  /\ Negative(ret.val)
  /\ ret.val # hex

(***************************************************************************)
(* Properties of Subcmd.                                                   *)
(***************************************************************************)
\* the file-backed accessor was released by delete_file
Released == outfile = "None"

\* the search window [start, end) of a call, as indexes into a text of length n
WinLo(c, n) == IF c.start < 0 THEN Max(c.start + n, 0) ELSE c.start
WinHi(c, n) ==
  IF ~c.eg THEN n ELSE IF c.end < 0 THEN Max(c.end + n, 0) ELSE Min(c.end, n)

\* i is the first index in lo..hi at which sub lies wholly inside text[lo:hi]
IsFirstOcc(text, sub, lo, hi, i) ==
  /\ lo <= i
  /\ i + Len(sub) <= hi
  /\ Matches(text, sub, i)
  /\ \A j \in lo..(i - 1) : ~Matches(text, sub, j)

\* a found result [val, s, e] of get_field is exact on the text
FieldExact(text, c, r) ==
  r.kind \in {"field", "fieldhex"} =>
    /\ \E i \in 0..Len(text) :
         /\ IsFirstOcc(text, c.a, WinLo(c, Len(text)), WinHi(c, Len(text)), i)
         /\ r.s = i + Len(c.a) + Len(c.sep)
    /\ IsFirstOcc(text, c.b, r.s, Len(text), r.e)
    /\ r.kind = "field" => r.val = PySlice(text, TRUE, r.s, TRUE, r.e)
    /\ r.kind = "fieldhex" =>
         RHex(r.val) = HexOfStr(PyStrip(PySlice(text, TRUE, r.s, TRUE, r.e)))

\* the text of the separator does not matter, only its length
SeparatorLengthOnly(o, c, r) ==
  \A sep2 \in Separators :
    Len(sep2) = Len(c.sep) =>
      r = get_field(o, fsfile, c.a, c.b, sep2, c.start, c.eg, c.end, c.to_hex)

\* C1: every found result [val, s, e] of get_field has s = i + len(label) +
\* len(separator) for the first occurrence i of the label in the search
\* window, e the first occurrence of end_string at or after s, and
\* accessor[s:e] == val (Hex(accessor[s:e].strip()) with to_hex); only the
\* length of the separator is used.  Stated of both kinds of accessor.
C1_GetFieldExact ==
  (spc = "done" /\ scall.op = "get_field") =>
    /\ FieldExact(string_output, scall, sretS)
    /\ FieldExact(string_output, scall, sretF)
    /\ SeparatorLengthOnly(ObjS, scall, sretS)
    /\ SeparatorLengthOnly(ObjF, scall, sretF)

\* the part of C1 that holds: get_field on a string-backed Subcmd
C1_GetFieldExactString ==
  (spc = "done" /\ scall.op = "get_field") =>
    /\ FieldExact(string_output, scall, sretS)
    /\ SeparatorLengthOnly(ObjS, scall, sretS)

\* an outcome up to the kind of error raised
Outcome(r) == IF r.kind = "raise" THEN Raise("") ELSE r

\* C2: len, integer index, slice, find and rfind give the same outcome on a
\* string-backed and on a file-backed Subcmd holding the same text: the same
\* returned value, or both fail.
C2_SameOutcome ==
  (spc = "done" /\ ~Released
     /\ scall.op \in {"len", "getitem", "getslice", "find", "rfind"}) =>
    Outcome(sretS) = Outcome(sretF)


\* the indexes at which sub lies wholly inside the window text[lo:hi]
WindowHits(text, sub, lo, hi) ==
  {i \in 0..Len(text) : lo <= i /\ i + Len(sub) <= hi /\ Matches(text, sub, i)}

\* r is the least (greatest, for rfind) index of the needle in the window of
\* the call, or -1 when the window holds none
FindExact(text, c, r) ==
  LET H == WindowHits(text, c.a, WinLo(c, Len(text)), WinHi(c, Len(text)))
  IN  r = RInt(IF H = {} THEN -1
               ELSE IF c.op = "rfind" THEN Greatest(H) ELSE Least(H))

\* C12: find(needle, start, end) returns the smallest index i, and rfind the
\* largest, with start <= i, i + len(needle) <= end (end defaulting to the end
\* of the text, negative start and end counting from the end) and
\* text[i:i+len(needle)] == needle, and -1 when there is no such i.  Stated of
\* both kinds of accessor.
C12_FindWindow ==
  (spc = "done" /\ ~Released /\ scall.op \in {"find", "rfind"}) =>
    /\ FindExact(string_output, scall, sretS)
    /\ FindExact(string_output, scall, sretF)

\* the part of C12 that holds: find and rfind on a string-backed Subcmd
C12_FindWindowString ==
  (spc = "done" /\ scall.op \in {"find", "rfind"}) =>
    FindExact(string_output, scall, sretS)


\* the four field extractions, and those that search for an end string
FieldOps == {"get_field", "get_field2", "rget_field", "rget_field2"}
EndStringOps == {"get_field", "rget_field"}
ReverseOps == {"rfind", "rget_field", "rget_field2"}

\* the occurrences of the label in the search window of a field extraction
LabelHits(text, c) == WindowHits(text, c.a, WinLo(c, Len(text)), WinHi(c, Len(text)))

\* the label occurrence a field extraction anchors on, and the field start
LabelAt(text, c) ==
  IF c.op \in ReverseOps THEN Greatest(LabelHits(text, c)) ELSE Least(LabelHits(text, c))
FieldStart(text, c) == LabelAt(text, c) + Len(c.a) + Len(c.sep)

\* the field of the call is not there: the label is not in the search
\* window, or the end string does not occur at or after the field start
FieldAbsent(text, c) ==
  \/ LabelHits(text, c) = {}
  \/ /\ c.op \in EndStringOps
     /\ WindowHits(text, c.b, FieldStart(text, c), Len(text)) = {}

\* C13: on an accessor that has not been released, get_field, get_field2,
\* rget_field and rget_field2 return exactly [None, -1, -1] and raise nothing
\* when the label does not occur in the search window, and get_field and
\* rget_field do the same when the label occurs but the end string does not
\* occur at or after the field start.  Stated of both kinds of accessor.
C13_AbsentSentinel ==
  (spc = "done" /\ ~Released /\ scall.op \in FieldOps
     /\ FieldAbsent(string_output, scall)) =>
    /\ sretS = RNoField
    /\ sretF = RNoField

\* the part of C13 that holds: the field extractions of a string-backed Subcmd
C13_AbsentSentinelString ==
  (spc = "done" /\ scall.op \in FieldOps /\ FieldAbsent(string_output, scall)) =>
    sretS = RNoField


Field2Ops == {"get_field2", "rget_field2"}
Found(r) == r.kind \in {"field", "fieldhex"}

\* r is [val, s, e] with s just after an occurrence of the label and the
\* separator, e = s + length and val exactly the `length` characters of the
\* text from s
Field2Exact(text, c, r) ==
  LET i == r.s - Len(c.a) - Len(c.sep)
  IN  /\ 0 <= i
      /\ i + Len(c.a) <= Len(text)
      /\ Matches(text, c.a, i)
      /\ r.e = r.s + c.length
      /\ Len(r.val) = c.length
      /\ r.val = SubSeq(text, r.s + 1, r.s + c.length)

\* C14: whenever get_field2 or rget_field2 finds the label, the result
\* [val, s, e] has e == s + length and val is exactly the `length` characters
\* of the text starting at s (s = label index + len(label) + len(separator)).
\* Stated of the calls with length >= 0 that return a string.
C14_FixedLength ==
  (spc = "done" /\ scall.op \in Field2Ops /\ scall.length >= 0 /\ ~scall.to_hex) =>
    /\ Found(sretS) => Field2Exact(string_output, scall, sretS)
    /\ Found(sretF) => Field2Exact(string_output, scall, sretF)

\* a found result [val, s, e] of get_field2 or rget_field2 with length >= 0:
\* the label occurs at s - len(label) - len(separator), e = s + length, and
\* val is the characters of the text from s up to e or to the end of the
\* text (with to_hex, the Hex of these characters stripped)
Field2Clipped(text, c, r) ==
  LET i == r.s - Len(c.a) - Len(c.sep)
      chars == SubSeq(text, r.s + 1, Min(r.e, Len(text)))
  IN  /\ 0 <= i
      /\ i + Len(c.a) <= Len(text)
      /\ Matches(text, c.a, i)
      /\ r.e = r.s + c.length
      /\ Len(chars) = Max(0, Min(c.length, Len(text) - r.s))
      /\ r.kind = "field" => r.val = chars
      /\ r.kind = "fieldhex" => RHex(r.val) = HexOfStr(PyStrip(chars))

\* C14 as the code has it: the field is clipped at the end of the text
C14_FixedLengthClipped ==
  (spc = "done" /\ scall.op \in Field2Ops /\ scall.length >= 0) =>
    /\ Found(sretS) => Field2Clipped(string_output, scall, sretS)
    /\ Found(sretF) => Field2Clipped(string_output, scall, sretF)

C14_Witness ==
  /\ spc = "done"
  /\ ~Released
  /\ scall.op = "rget_field2"
  /\ scall.length = 2
  /\ scall.sep # <<>>
  /\ sretS = RField(FALSE, <<"A">>, 2, 4)
  /\ sretF = sretS


\* the label occurs exactly once in the text
UniqueLabel(text, label) == Cardinality(WindowHits(text, label, 0, Len(text))) = 1

\* the outcome on accessor o of the call made in the other search direction
\* with the same arguments
Opposite(o, c) ==
  CASE c.op = "get_field" ->
         rget_field(o, fsfile, c.a, c.b, c.sep, c.start, c.eg, c.end, c.to_hex)
    [] c.op = "rget_field" ->
         get_field(o, fsfile, c.a, c.b, c.sep, c.start, c.eg, c.end, c.to_hex)
    [] c.op = "get_field2" ->
         rget_field2(o, fsfile, c.a, c.length, c.sep, c.start, c.eg, c.end, c.to_hex)
    [] c.op = "rget_field2" ->
         get_field2(o, fsfile, c.a, c.length, c.sep, c.start, c.eg, c.end, c.to_hex)

\* C15: if the label occurs exactly once in the text, get_field and
\* rget_field called with identical arguments return the same triple, and
\* likewise get_field2 and rget_field2; a call that fails (a field that is
\* not hex with to_hex) fails in both directions with the same error.
C15_DirectionSymmetry ==
  (spc = "done" /\ ~Released /\ scall.op \in FieldOps
     /\ UniqueLabel(string_output, scall.a)) =>
    /\ sretS = Opposite(ObjS, scall)
    /\ sretF = Opposite(ObjF, scall)

C15_Witness ==
  /\ spc = "done"
  /\ ~Released
  /\ scall.op = "rget_field"
  /\ UniqueLabel(string_output, scall.a)
  /\ string_output = <<"A", ":", ":">>
  /\ scall.b = <<":">>
  /\ sretS = RField(FALSE, <<>>, 1, 1)
  /\ sretF = sretS


\* every operation that reads the output
ReadOps == {"getitem", "getslice", "len", "find", "rfind"} \cup FieldOps

\* C16: after delete_file() has run on a file-backed Subcmd, the backing file
\* no longer exists and outfile is None; the Subcmd stays released, and every
\* later operation on it - integer index, slice, len, find, rfind, get_field,
\* get_field2, rget_field, rget_field2 - fails with an error.
C16_ReleasedFails ==
  /\ [][scall'.op = "delete_file" => (outfile' = "None" /\ ~fsexists')]_vars
  /\ [][Released => (outfile' = "None" /\ ~fsexists')]_vars
  /\ []((Released /\ spc = "done") => (scall.op \in ReadOps /\ sretF.kind = "raise"))

C16_Witness ==
  /\ Released
  /\ ~fsexists
  /\ spc = "done"
  /\ scall.op = "rget_field2"
  /\ Found(sretS)
  /\ sretF = Raise("RuntimeError")

(***************************************************************************)
(* Properties of the header decoders.                                      *)
(***************************************************************************)
\* a decoder has read the dataset
Decoded == dpc = "done"

\* the k-th record of the dataset starts with the signature C4D9F240C8
SignatureAt(k) ==
  /\ Len(dataset.records) >= k
  /\ dataset.records[k].sig = <<"D", "R", "2", " ", "H">>

\* the error the decoders raise for a dataset that holds no dump header
NotAHeader == {"ValueError: not a dump", "RuntimeError: no dr2 h"}

\* the record returned has every key of a record of its dump type
CompleteRecord(rec) ==
  /\ {"dump_type"} \cup AlwaysKeys \subseteq rec.keys
  /\ rec.dump_type # <<"S", "A", "D">> => NotSadKeys \subseteq rec.keys

\* C17: on a dataset that is a dump, dump_header_data and DumpHeader decode
\* the first block when it starts with the signature C4D9F240C8, else the
\* second block when that one starts with it, and when neither does they
\* fail with the not-a-header error and return no record.
C17_SignatureChecked ==
  (Decoded /\ is_dump(dataset)) =>
    /\ dret.kind = "record" =>
         \/ SignatureAt(1) /\ dret.rec.sysname = RStrip(dataset.records[1].sysname)
         \/ ~SignatureAt(1) /\ SignatureAt(2)
              /\ dret.rec.sysname = RStrip(dataset.records[2].sysname)
    /\ (~SignatureAt(1) /\ ~SignatureAt(2)) =>
         dret = HRaise("RuntimeError: no dr2 h")

\* C17, for dump_header_data on a dataset of two records: the signature is
\* checked on the first block, then on the second, as the claim says.
C17_SignatureCheckedTwoRecords ==
  (Decoded /\ dcall = "dump_header_data" /\ Len(dataset.records) = 2) =>
    C17_SignatureChecked

\* C18: whatever the dataset holds, a decoder either returns a complete
\* record or fails with the not-a-header error; it raises nothing else and
\* returns no partial record.
C18_RecordOrNotAHeader ==
  Decoded =>
    \/ dret.kind = "record" /\ CompleteRecord(dret.rec)
    \/ dret.kind = "raise" /\ dret.err \in NotAHeader

\* C19: in every record a decoder returns, the keys home_jobname, primary,
\* secondary, home, sdwa_asid, sdwa_address, blocks_allocated_decimal and
\* remote_dump are present exactly when dump_type is not "SAD", and the keys
\* sysname, date_local, time_local, title, original_dump_dsn, version,
\* release, sdrsn, complete_dump, processor_serial_number and
\* processor_model_number are always present.
C19_ConditionalKeys ==
  (Decoded /\ dret.kind = "record") =>
    /\ AlwaysKeys \subseteq dret.rec.keys
    /\ \A k \in NotSadKeys :
         k \in dret.rec.keys <=> dret.rec.dump_type # <<"S", "A", "D">>

\* a record of a stand-alone dump was returned, without the conditional keys
C19_Witness ==
  /\ Decoded
  /\ dret.kind = "record"
  /\ dret.rec.dump_type = <<"S", "A", "D">>
  /\ dret.rec.keys = {"dump_type"} \cup AlwaysKeys

\* C20: in every record returned whose dump_type is not "SAD", remote_dump
\* is True exactly when the decoded remote system name is not empty and
\* differs from sysname.
C20_RemoteDump ==
  (Decoded /\ dret.kind = "record" /\ dret.rec.dump_type # <<"S", "A", "D">>) =>
    (dret.rec.remote_dump <=>
       (dret.rec.remote_sysname # <<>> /\ dret.rec.remote_sysname # dret.rec.sysname))

\* C20, for the headers that name a remote system: remote_dump is True
\* exactly when that name differs from sysname.
C20_RemoteDumpNamed ==
  (Decoded /\ dret.kind = "record" /\ "remote_sysname" \in dret.rec.keys) =>
    (dret.rec.remote_dump <=> dret.rec.remote_sysname # dret.rec.sysname)

\* C21: in every record DumpHeader returns, the key remote_sysname appears
\* only if remote_dump is True.
C21_RemoteSysnameOnlyIfRemote ==
  (Decoded /\ dcall = "DumpHeader" /\ dret.kind = "record"
     /\ "remote_sysname" \in dret.rec.keys) =>
    ("remote_dump" \in dret.rec.keys /\ dret.rec.remote_dump)

\* C21, the converse direction the code does keep: a record without a
\* remote system name that is not of a stand-alone dump has remote_dump
\* True exactly when sysname is not empty.
C21_RemoteSysnameAbsent ==
  (Decoded /\ dcall = "DumpHeader" /\ dret.kind = "record"
     /\ "remote_dump" \in dret.rec.keys /\ "remote_sysname" \notin dret.rec.keys) =>
    (dret.rec.remote_dump <=> dret.rec.sysname # <<>>)

\* C22: for Hex a and b whose to_int() returns, a == b is True exactly when
\* a.to_int() = b.to_int(), a != b is its negation, and <, <=, >, >= are
\* the integer order of to_int(): leading zeros do not matter, the sign
\* does; with an operand that is not a Hex, == is False and an ordering
\* comparison raises TypeError.
C22_Comparisons ==
  (hpc = "done" /\ call.op \in CompareOps) =>
    /\ (call.t = "Hex" /\ IntOk(hex) /\ IntOk(call.other)) =>
         LET a == to_int(hex)
             b == to_int(call.other)
         IN  /\ ret.kind = "bool"
             /\ call.op = "eq" => (ret.num = 1 <=> a = b)
             /\ call.op = "ne" => (ret.num = 1 <=> a # b)
             /\ call.op = "lt" => (ret.num = 1 <=> a < b)
             /\ call.op = "le" => (ret.num = 1 <=> a <= b)
             /\ call.op = "gt" => (ret.num = 1 <=> a > b)
             /\ call.op = "ge" => (ret.num = 1 <=> a >= b)
    /\ (call.t # "Hex" /\ call.op = "eq") => ret = RBool(FALSE)
    /\ (call.t # "Hex" /\ call.op \in {"lt", "le", "gt", "ge"}) =>
         ret = Raise("TypeError")

\* a value written with a leading zero was found equal to the same value
\* written without it
C22_Witness ==
  /\ Called("eq")
  /\ call.t = "Hex"
  /\ hex = <<"0", "0", "F">>
  /\ call.other = <<"F">>
  /\ ret = RBool(TRUE)

\* the digits of v are all zero
ZeroMagnitude(v) ==
  LET d == RemovePrefix(v, <<"-">>)
  IN  d # <<>> /\ \A i \in 1..Len(d) : d[i] = "0"

\* v has no sign: sign() is "" and to_str() has no leading "-"
Unsigned(v) == sign(v) = <<>> /\ ~StartsWith(to_str(v), <<"-">>)

\* C23: every Hex whose magnitude is zero, constructed from a string or an
\* integer or returned by an operation, is unsigned: sign() is "" and
\* to_str() has no leading "-".
C23_ZeroUnsigned ==
  /\ (Constructed /\ ZeroMagnitude(hex)) => Unsigned(hex)
  /\ (ret.kind = "Hex" /\ ZeroMagnitude(ret.val)) => Unsigned(ret.val)

\* a negative value and its opposite were added: the sum is an unsigned zero
C23_Witness ==
  /\ Called("add")
  /\ value = StrArg(<<"-", "0", "F">>)
  /\ call.other = <<"F">>
  /\ ZeroMagnitude(ret.val)
  /\ Unsigned(ret.val)

\* the text of the bytes written by the digits d, two digits a byte, or
\* "" when they are not whole bytes
BytesText(d) ==
  IF Len(d) % 2 = 1 THEN <<>>
  ELSE [i \in 1..(Len(d) \div 2) |-> IbmDecode(d[2 * i - 1], d[2 * i])]

\* C24: to_char_str(encoding) never raises: it returns the text of the
\* bytes written by the digits without the sign, two digits a byte, so that
\* a negative value gives the text of its unsigned value, and "" when the
\* decoding fails (digits that are not whole bytes, an unknown encoding).
C24_ToCharStr ==
  Called("to_char_str") =>
    /\ ret.kind = "str"
    /\ ret.val = IF call.other[1] \in Encodings THEN BytesText(Digits(hex)) ELSE <<>>

\* C24, for the values without a sign: to_char_str never raises and returns
\* the text of the bytes, or "" when the decoding fails; for a negative
\* value it returns "".
C24_ToCharStrUnsigned ==
  Called("to_char_str") =>
    /\ ret.kind = "str"
    /\ sign(hex) = <<>> =>
         ret.val = IF call.other[1] \in Encodings THEN BytesText(hex) ELSE <<>>
    /\ sign(hex) = <<"-">> => ret.val = <<>>

\* the bitwise OR of two words, digit by digit
WordOr(a, b) == [i \in 1..8 |-> HexChars[PyOr(DigitVal(a[i]), DigitVal(b[i])) + 1]]

\* the word w with bit 12 on: the first bit of its fourth digit
WithBit12(w) == [i \in 1..8 |-> IF i = 4 THEN HexChars[PyOr(DigitVal(w[4]), 8) + 1] ELSE w[i]]

\* C25: psw_scrunch returns a non-negative PSW of 64 bits as it is, reduces
\* a non-negative PSW of 128 bits to its word 0 with bit 12 on followed by
\* word 1 OR word 3, and raises ValueError for a negative PSW and for any
\* other bit length; what it returns has 64 bits, and psw_scrunch applied to
\* it returns it again.
C25_PswScrunch ==
  /\ (hpc = "done" /\ call.op = "psw_scrunch") =>
       /\ (Negative(hex) \/ Len(Digits(hex)) \notin {16, 32}) => ret = Raise("ValueError")
       /\ (~Negative(hex) /\ Len(hex) = 16) => ret = RHex(hex)
       /\ (~Negative(hex) /\ Len(hex) = 32) =>
            ret = RHex(WithBit12(SubSeq(hex, 1, 8))
                         \o WordOr(SubSeq(hex, 9, 16), SubSeq(hex, 25, 32)))
       /\ ret.kind = "Hex" => bit_len(ret.val) = 64
  /\ hpc = "again" => ret = RHex(hex)

\* the first PSW of test_psw_scrunch was scrunched to 070C3000854387AA
C25_Witness ==
  /\ hpc = "done"
  /\ call.op = "psw_scrunch"
  /\ hex = <<"0", "7", "0", "4", "3", "0", "0", "0", "8", "0", "0", "0", "0", "0", "0", "0",
             "0", "0", "0", "0", "0", "0", "0", "0", "0", "5", "4", "3", "8", "7", "A", "A">>
  /\ ret = RHex(<<"0", "7", "0", "C", "3", "0", "0", "0",
                  "8", "5", "4", "3", "8", "7", "A", "A">>)

(***************************************************************************)
(* Properties of IpcsAllocations.                                          *)
(***************************************************************************)
ACalled(op) == acall.op = op /\ aret = "ok"

\* the dictionary a overridden by the entries of the dictionary b
Overridden(a, b) == [d \in DDNames |-> IF b[d] # Absent THEN b[d] ELSE a[d]]

\* C26: over every sequence of calls that return, IpcsAllocations is a map
\* from DD name to specification: set(dd, spec) leaves get()[dd] = spec,
\* set(dd, list, extend=True) on a DD name holding a list leaves the old
\* list followed by the new entries, update(new, clear=True) leaves
\* get() = new, update(new, clear=False) leaves the old map overridden by
\* new, drop(dd) leaves dd absent and clear() leaves get() = {}; the DD names
\* a call does not name keep their specification
C26_Map ==
  /\ (ACalled("set") /\ ~acall.extend) =>
        get(allocations) = [before EXCEPT ![acall.dd_name] = acall.specification]
  /\ (ACalled("set") /\ acall.extend /\ before[acall.dd_name].t = "list") =>
        get(allocations) =
          [before EXCEPT ![acall.dd_name] =
             ListSpec(before[acall.dd_name].l \o acall.specification.l)]
  /\ (ACalled("update") /\ acall.clear) =>
        get(allocations) = AsDict(acall.new_allocations)
  /\ (ACalled("update") /\ ~acall.clear /\ ~acall.extend) =>
        get(allocations) = Overridden(before, AsDict(acall.new_allocations))
  /\ ACalled("drop") =>
        get(allocations) = [before EXCEPT ![acall.dd_name] = Absent]
  /\ ACalled("clear") => get(allocations) = EmptyDict

\* set(dd, list, extend=True) returned on a DD name that held a non-empty
\* list, with new entries
C26_Witness ==
  /\ ACalled("set")
  /\ acall.extend
  /\ before[acall.dd_name].t = "list"
  /\ before[acall.dd_name].l # <<>>
  /\ acall.specification.l # <<>>
  /\ Len(get(allocations)[acall.dd_name].l) = 2

\* C29: when update raises, get() returns afterwards the allocations from
\* before the call
C29_UpdateRaisesUnchanged ==
  (acall.op = "update" /\ aret \notin {"ok", "none"}) => get(allocations) = before

\* when update raises on its first entry and does not clear, get() returns
\* afterwards the allocations from before the call
C29_FirstEntryRaises ==
  (/\ acall.op = "update"
   /\ ~acall.clear
   /\ aret \notin {"ok", "none"}
   /\ set(before, acall.new_allocations[1][1], acall.new_allocations[1][2],
          acall.extend).err # "ok")
    => get(allocations) = before
(***************************************************************************)
(* The search window of the field extractions.                             *)
(***************************************************************************)
\* a field extraction was called with a window 0 <= start <= end
WindowCall ==
  /\ scall.op \in FieldOps
  /\ scall.eg
  /\ 0 <= scall.start
  /\ scall.start <= scall.end

InWindow(r) == scall.start <= r.s /\ r.s <= r.e /\ r.e <= scall.end

\* C28: get_field, get_field2, rget_field and rget_field2 called with an
\* explicit window [start, end) return, when they find the field, positions
\* with start <= s <= e <= end
C28_FieldInWindow ==
  WindowCall => /\ Found(sretS) => InWindow(sretS)
                /\ Found(sretF) => InWindow(sretF)

\* the part of C28 that holds: get_field and rget_field of a string-backed
\* Subcmd return positions within the window
C28_FieldInWindowString ==
  (WindowCall /\ scall.op \in {"get_field", "rget_field"})
    => (Found(sretS) => InWindow(sretS))
(***************************************************************************)
(* Properties of IpcsSession.                                              *)
(***************************************************************************)
SessionState == <<session_id, time_opened, ddir, zos>>

\* the call that has just returned did the work of op, with no warning that
\* there was nothing to do
Successful(op) ==
  /\ ncall.op = op
  /\ nret.kind = "return"
  /\ nret.warning \notin {"already active", "already closed"}

\* C27: in any sequence of open() and close() calls, open() on an active
\* session and close() on an inactive session only warn and change no
\* session state; after a successful close() the session is not active and
\* its ddir is None, after a successful open() it is active with a ddir set
C27_OpenClose ==
  [][/\ (ncall'.op = "open" /\ ncall'.active = "True") =>
          /\ nret' = [kind |-> "return", err |-> "", warning |-> "already active"]
          /\ UNCHANGED SessionState
     /\ (ncall'.op = "close" /\ ncall'.active = "False") =>
          /\ nret' = [kind |-> "return", err |-> "", warning |-> "already closed"]
          /\ UNCHANGED SessionState
     /\ Successful("close")' =>
          /\ \A rc0 \in BOOLEAN : active(Session, rc0)' = "False"
          /\ ddir' = "None"
     /\ Successful("open")' =>
          /\ \A rc0 \in BOOLEAN : active(Session, rc0)' = "True"
          /\ ddir' # "None"]_vars

\* open() has warned on a session that a successful open() left active
C27_Witness ==
  /\ ncall.op = "open"
  /\ ncall.active = "True"
  /\ nret.warning = "already active"
  /\ ddir = "INIT.DDIR"

\* open() found the session not active and raised because a write of a
\* session dataset failed
OpenWriteFailed ==
  /\ ncall.op = "open"
  /\ ncall.active = "False"
  /\ ncall.fail \in Range(SessionDatasets)
  /\ nret.kind = "raise"

\* C30: if the write of a session dataset fails during open(), the initial
\* dump directory created in that open() is deleted and the session is left
\* not open: session id cleared, active false, no dataset leaked
C30_FailedOpenCleansUp ==
  OpenWriteFailed =>
    /\ ~Exists(zos, ncall.id, "INIT.DDIR")
    /\ session_id = "None"
    /\ \A rc0 \in BOOLEAN : active(Session, rc0) = "False"
    /\ zos = {}

\* the part of C30 that holds: a failed write makes open() raise RuntimeError
C30_FailureReported ==
  (ncall.op = "open" /\ ncall.active = "False" /\ ncall.fail \in Range(SessionDatasets))
    => (nret.kind = "raise" /\ nret.err = "RuntimeError")
====
